---- MODULE Spec2Model ----
(***************************************************************************)
(* A model of the sview monitoring core: the alert manager (alerts.rs),    *)
(* the metric ring buffers (history.rs), the snapshot store (storage.rs)   *)
(* and the Prometheus parser (metrics.rs).                                 *)
(*                                                                         *)
(* Conventions.  An Option<T> is a set with at most one element: None is   *)
(* {} and Some(v) is {v}.  Wall-clock time is the variable now, in Unix    *)
(* seconds; every SystemTime::now() of the code reads it.  An f64 progress *)
(* percentage is kept in hundredths of a percent (95.0 is 9500).           *)
(***************************************************************************)
EXTENDS Integers, Sequences, FiniteSets, TLC

VARIABLES
    now,                        \* the wall clock, Unix seconds
    last_op,                    \* the last operation called and its argument (history variable)
    \* AlertManager (alerts.rs:60-71)
    log_file,                   \* "none": no log path; "unopenable": open fails;
                                \* "unwritable": the write fails; "writable"
    log_lines,                  \* the lines of the alert log file
    recent_alerts,
    last_kes_warning,
    last_peer_warning,
    last_sync_warning,
    last_height_stall_warning,
    emitted,                    \* the alerts add_alert was called with, in call order (history variable)
    \* MetricHistory (history.rs:10-15)
    capacity,
    values,
    pushed,                     \* every value pushed since construction or the last clear (history variable)
    \* StorageManager (storage.rs:97-106) and the files under history/<node_name>/
    retention_days,
    last_save_timestamp,
    dirs,                       \* the year and month directories: <<year>> and <<year, month>> names
    files,                      \* path <<year, month, file name>> -> content
    true_saves,                 \* the clock reads of the save_snapshot calls that returned Ok(true) (history variable)
    \* the response text of a poll and the NodeMetrics parsed from it (metrics.rs)
    payload,
    node_metrics,
    \* NodeState (app.rs:29-49); its metrics field is node_metrics and its storage
    \* field the StorageManager above
    history,                    \* MetricsHistory: tracked field -> MetricHistory
    last_error,
    fetch_count,
    last_block_height,
    last_block_time,
    updates                     \* the records MetricsHistory::update was called with (history variable)

alert_vars == <<log_file, log_lines, recent_alerts, last_kes_warning, last_peer_warning,
                last_sync_warning, last_height_stall_warning, emitted>>
history_vars == <<capacity, values, pushed>>
storage_vars == <<retention_days, last_save_timestamp, dirs, files, true_saves>>
parse_vars == <<payload, node_metrics>>
app_vars == <<history, last_error, fetch_count, last_block_height, last_block_time, updates>>
vars == <<now, last_op, alert_vars, history_vars, storage_vars, parse_vars, app_vars>>

None == {}
Some(v) == {v}
IsSome(o) == o # {}
Unwrap(o) == CHOOSE v \in o : TRUE

Last(s) == s[Len(s)]

\* u64::MAX at the width of the model
U64_MAX == 2147483647

\* a + b and a - b on u64 without overflow checks (the release profile)
wrapping_add(a, b) == IF a > U64_MAX - b THEN a - (U64_MAX - b) - 1 ELSE a + b
wrapping_sub(a, b) == IF a >= b THEN a - b ELSE U64_MAX - (b - a) + 1

\* now - last on u64 goes below zero: the clock read is earlier than the stored time
elapsed_underflows(t, last) == IsSome(last) /\ t < Unwrap(last)

SetMin(S) == CHOOSE m \in S : \A x \in S : m <= x
SetMax(S) == CHOOSE m \in S : \A x \in S : x <= m

(***************************************************************************)
(* Bounds of the model.                                                    *)
(***************************************************************************)
MaxNow == 3600          \* the alert clock runs over 0..MaxNow
MaxAlerts == 2          \* alerts emitted in one run of the alert manager
MaxCapacity == 3        \* ring capacities 0..MaxCapacity
MaxPushed == 5          \* pushes since construction or the last clear
MaxValue == 2           \* pushed values 0..MaxValue
MaxSamples == 4         \* load_history is called with max_samples in 0..MaxSamples
MaxSaved == 2           \* snapshots persisted in one run of the storage manager
MaxDays == 0            \* the storage clock runs over the days FirstDay..FirstDay + MaxDays
MaxCallLag == 1         \* seconds the clock may advance during one save_snapshot call
MaxLines == 2           \* lines of one response text
MaxPolls == 3           \* polls in one run of a node
LastYear == 2101        \* the calendar runs convert dates up to this year

(***************************************************************************)
(* alerts.rs                                                               *)
(***************************************************************************)
KES_THRESHOLD == 5
KES_COOLDOWN == 3600
PEER_THRESHOLD == 2
PEER_COOLDOWN == 300
SYNC_THRESHOLD == 9500
SYNC_CRITICAL == 9000
SYNC_COOLDOWN == 600
STALL_THRESHOLD == 300
STALL_COOLDOWN == 600
max_recent == 50

NodeName == "Test Node"

\* impl Display for AlertSeverity
SeverityDisplay(severity) ==
    CASE severity = "Info" -> "INFO"
      [] severity = "Warning" -> "WARN"
      [] severity = "Critical" -> "CRIT"

\* The derived Ord of AlertSeverity: Info < Warning < Critical
SeverityRank(severity) ==
    CASE severity = "Info" -> 0
      [] severity = "Warning" -> 1
      [] severity = "Critical" -> 2

alerts_is_leap_year(year) ==
    (year % 4 = 0 /\ year % 100 # 0) \/ (year % 400 = 0)

RECURSIVE alerts_year_of(_, _)
\* the year loop of timestamp_to_iso8601: <<year, remaining_days>>
alerts_year_of(remaining_days, year) ==
    LET days_in_year == IF alerts_is_leap_year(year) THEN 366 ELSE 365
    IN  IF remaining_days < days_in_year
        THEN <<year, remaining_days>>
        ELSE alerts_year_of(remaining_days - days_in_year, year + 1)

alerts_days_in_months(year) ==
    IF alerts_is_leap_year(year)
    THEN <<31, 29, 31, 30, 31, 30, 31, 31, 30, 31, 30, 31>>
    ELSE <<31, 28, 31, 30, 31, 30, 31, 31, 30, 31, 30, 31>>

RECURSIVE alerts_month_of(_, _, _)
\* the month loop of timestamp_to_iso8601: <<month, remaining_days>>
alerts_month_of(remaining_days, month, dim) ==
    IF month > 12 \/ remaining_days < dim[month]
    THEN <<month, remaining_days>>
    ELSE alerts_month_of(remaining_days - dim[month], month + 1, dim)

\* the six numbers formatted into "YYYY-MM-DDTHH:MM:SSZ"
alerts_timestamp_to_iso8601(ts) ==
    LET seconds_in_day == ts % 86400
        days_since_epoch == ts \div 86400
        y == alerts_year_of(days_since_epoch, 1970)
        m == alerts_month_of(y[2], 1, alerts_days_in_months(y[1]))
    IN  <<y[1], m[1], m[2] + 1,
          seconds_in_day \div 3600, (seconds_in_day % 3600) \div 60, seconds_in_day % 60>>

\* Alert::log_format: the five " | "-separated columns of one log line
log_format(alert) ==
    <<alerts_timestamp_to_iso8601(alert.timestamp), alert.node_name,
      SeverityDisplay(alert.severity), alert.title, alert.message>>

\* the log file after add_alert's write of one alert
log_after(alert) ==
    IF log_file = "writable" THEN Append(log_lines, log_format(alert)) ELSE log_lines

\* mutant of ring_after: an alert that was not logged is not kept in memory either
ring_after_logged(alert) ==
    IF log_file = "writable" THEN Append(recent_alerts, alert) ELSE recent_alerts

\* mutant of ring_after: the ring is cleared when it overflows
ring_after_clearing(alert) ==
    LET grown == Append(recent_alerts, alert)
    IN  IF Len(grown) > max_recent THEN <<alert>> ELSE grown

\* the in-memory ring after add_alert's push_back and pop_front
ring_after(alert) ==
    LET grown == Append(recent_alerts, alert)
    IN  IF Len(grown) > max_recent THEN Tail(grown) ELSE grown

\* AlertManager::add_alert
add_alert(alert) ==
    /\ log_lines' = log_after(alert)
    /\ recent_alerts' = ring_after(alert)
    /\ emitted' = Append(emitted, alert)
    /\ UNCHANGED log_file

\* mutant of kes_unhealthy: the threshold test written as <=
kes_unhealthy_inclusive(kes_remaining) ==
    IsSome(kes_remaining) /\ Unwrap(kes_remaining) <= KES_THRESHOLD

kes_unhealthy(kes_remaining) ==
    IsSome(kes_remaining) /\ Unwrap(kes_remaining) < KES_THRESHOLD

\* mutant of kes_cooldown_active: the cooldown test written as <=
kes_cooldown_active_inclusive(t) ==
    IsSome(last_kes_warning) /\ t - Unwrap(last_kes_warning) <= KES_COOLDOWN

kes_cooldown_active(t) ==
    IsSome(last_kes_warning) /\ wrapping_sub(t, Unwrap(last_kes_warning)) < KES_COOLDOWN

kes_alert(t, remaining) ==
    [timestamp |-> t, node_name |-> NodeName, severity |-> "Critical",
     title |-> "KES Expiry Critical", message |-> <<remaining>>]

\* AlertManager::check_kes_expiry
check_kes_expiry(kes_remaining) ==
    /\ last_op' = [op |-> "check_kes_expiry", arg |-> <<kes_remaining>>]
    /\ UNCHANGED <<now, history_vars, storage_vars, parse_vars, app_vars>>
    /\ IF kes_unhealthy(kes_remaining) /\ ~kes_cooldown_active(now)
       THEN /\ Len(emitted) < MaxAlerts
            /\ add_alert(kes_alert(now, Unwrap(kes_remaining)))
            /\ last_kes_warning' = Some(now)
            /\ UNCHANGED <<last_peer_warning, last_sync_warning, last_height_stall_warning>>
       ELSE UNCHANGED alert_vars

peer_unhealthy(peers) ==
    IsSome(peers) /\ Unwrap(peers) < PEER_THRESHOLD

\* the last check call made so far (a tick of the recovery runs carries it along)
PreviousCheck == IF last_op.op = "tick" /\ "prev" \in DOMAIN last_op THEN last_op.prev ELSE last_op

\* mutant of peer_cooldown_active: a healthy reading ends the cooldown
peer_cooldown_active_reset(t) ==
    /\ IsSome(last_peer_warning) /\ t - Unwrap(last_peer_warning) < PEER_COOLDOWN
    /\ ~(PreviousCheck.op = "check_peer_count" /\ ~peer_unhealthy(PreviousCheck.arg[1]))

\* mutant of peer_cooldown_active: the cooldown ends one second early
peer_cooldown_active_short(t) ==
    IsSome(last_peer_warning) /\ t - Unwrap(last_peer_warning) < PEER_COOLDOWN - 1

peer_cooldown_active(t) ==
    IsSome(last_peer_warning) /\ wrapping_sub(t, Unwrap(last_peer_warning)) < PEER_COOLDOWN

peer_severity(count) ==
    IF count = 0 THEN "Critical" ELSE "Warning"

peer_alert(t, count) ==
    [timestamp |-> t, node_name |-> NodeName, severity |-> peer_severity(count),
     title |-> "Low Peer Count", message |-> <<count>>]

\* AlertManager::check_peer_count
check_peer_count(peers) ==
    /\ last_op' = [op |-> "check_peer_count", arg |-> <<peers>>]
    /\ UNCHANGED <<now, history_vars, storage_vars, parse_vars, app_vars>>
    /\ IF peer_unhealthy(peers) /\ ~peer_cooldown_active(now)
       THEN /\ Len(emitted) < MaxAlerts
            /\ add_alert(peer_alert(now, Unwrap(peers)))
            /\ last_peer_warning' = Some(now)
            /\ UNCHANGED <<last_kes_warning, last_sync_warning, last_height_stall_warning>>
       ELSE UNCHANGED alert_vars

sync_unhealthy(sync_progress) ==
    IsSome(sync_progress) /\ Unwrap(sync_progress) < SYNC_THRESHOLD

\* mutant of sync_cooldown_active: the peer cooldown also silences the sync check
sync_cooldown_active_shared(t) ==
    \/ IsSome(last_sync_warning) /\ t - Unwrap(last_sync_warning) < SYNC_COOLDOWN
    \/ IsSome(last_peer_warning) /\ t - Unwrap(last_peer_warning) < PEER_COOLDOWN

sync_cooldown_active(t) ==
    IsSome(last_sync_warning) /\ wrapping_sub(t, Unwrap(last_sync_warning)) < SYNC_COOLDOWN

\* mutant of sync_severity: exactly 90 percent counted as Critical
sync_severity_inclusive(progress) ==
    IF progress <= SYNC_CRITICAL THEN "Critical" ELSE "Warning"

sync_severity(progress) ==
    IF progress < SYNC_CRITICAL THEN "Critical" ELSE "Warning"

sync_alert(t, progress) ==
    [timestamp |-> t, node_name |-> NodeName, severity |-> sync_severity(progress),
     title |-> "Sync Progress Degraded", message |-> <<progress>>]

\* AlertManager::check_sync_progress
check_sync_progress(sync_progress) ==
    /\ last_op' = [op |-> "check_sync_progress", arg |-> <<sync_progress>>]
    /\ UNCHANGED <<now, history_vars, storage_vars, parse_vars, app_vars>>
    /\ IF sync_unhealthy(sync_progress) /\ ~sync_cooldown_active(now)
       THEN /\ Len(emitted) < MaxAlerts
            /\ add_alert(sync_alert(now, Unwrap(sync_progress)))
            /\ last_sync_warning' = Some(now)
            /\ UNCHANGED <<last_kes_warning, last_peer_warning, last_height_stall_warning>>
       ELSE UNCHANGED alert_vars

stall_unhealthy(time_since_last_block) ==
    IsSome(time_since_last_block) /\ Unwrap(time_since_last_block) > STALL_THRESHOLD

\* mutant of stall_cooldown_active: once fired, the category stays silent
stall_cooldown_active_latched(t) ==
    IsSome(last_height_stall_warning)

stall_cooldown_active(t) ==
    IsSome(last_height_stall_warning)
    /\ wrapping_sub(t, Unwrap(last_height_stall_warning)) < STALL_COOLDOWN

\* current_height.unwrap_or(0)
unwrap_or_0(o) == IF IsSome(o) THEN Unwrap(o) ELSE 0

stall_alert(t, age, current_height) ==
    [timestamp |-> t, node_name |-> NodeName, severity |-> "Warning",
     title |-> "Block Height Stalled", message |-> <<age, unwrap_or_0(current_height)>>]

\* AlertManager::check_block_stall (previous_height is unused by the code)
check_block_stall(current_height, time_since_last_block) ==
    /\ last_op' = [op |-> "check_block_stall", arg |-> <<time_since_last_block, current_height>>]
    /\ UNCHANGED <<now, history_vars, storage_vars, parse_vars, app_vars>>
    /\ IF stall_unhealthy(time_since_last_block) /\ ~stall_cooldown_active(now)
       THEN /\ Len(emitted) < MaxAlerts
            /\ add_alert(stall_alert(now, Unwrap(time_since_last_block), current_height))
            /\ last_height_stall_warning' = Some(now)
            /\ UNCHANGED <<last_kes_warning, last_peer_warning, last_sync_warning>>
       ELSE UNCHANGED alert_vars

\* AlertManager::latest_critical
latest_critical ==
    LET crit == SelectSeq(recent_alerts, LAMBDA a : a.severity = "Critical")
    IN  IF crit = <<>> THEN None ELSE Some(Last(crit))

(***************************************************************************)
(* history.rs                                                              *)
(***************************************************************************)
\* MetricHistory::new: an empty buffer of the given capacity
MetricHistory_new(cap) ==
    /\ capacity = cap
    /\ values = <<>>
    /\ pushed = <<>>

\* mutant of values_after_push: pop_front only when len > capacity
values_after_push_late_pop(value) ==
    LET popped == IF Len(values) > capacity /\ values # <<>> THEN Tail(values) ELSE values
    IN  Append(popped, value)

\* the deque after push: pop_front when len >= capacity (a no-op on an empty
\* deque), then push_back
values_after_push(value) ==
    LET popped == IF Len(values) >= capacity /\ values # <<>> THEN Tail(values) ELSE values
    IN  Append(popped, value)

\* MetricHistory::push
push(value) ==
    /\ Len(pushed) < MaxPushed
    /\ values' = values_after_push(value)
    /\ pushed' = Append(pushed, value)
    /\ last_op' = [op |-> "push", arg |-> <<value>>]
    /\ UNCHANGED <<now, capacity, alert_vars, storage_vars, parse_vars, app_vars>>

\* MetricHistory::clear
clear ==
    /\ values' = <<>>
    /\ pushed' = <<>>
    /\ last_op' = [op |-> "clear", arg |-> <<>>]
    /\ UNCHANGED <<now, capacity, alert_vars, storage_vars, parse_vars, app_vars>>

\* MetricHistory::len
len == Len(values)

\* MetricHistory::current
current == IF values = <<>> THEN None ELSE Some(Last(values))

\* mutant of trend: the difference to the first value ever pushed
trend_since_first ==
    IF Len(pushed) < 2 THEN None ELSE Some(Last(pushed) - Head(pushed))

\* MetricHistory::trend
trend ==
    IF Len(values) < 2 THEN None ELSE Some(Last(values) - Head(values))

\* MetricHistory::push on a MetricHistory value
MetricHistory_push(h, value) ==
    LET popped == IF Len(h.values) >= h.capacity /\ h.values # <<>> THEN Tail(h.values)
                  ELSE h.values
    IN  [h EXCEPT !.values = Append(popped, value)]

\* the fields of struct MetricsHistory
HistoryFields ==
    {"block_height", "slot_num", "peers_connected", "memory_used", "mempool_txs",
     "sync_progress", "p2p_hot_peers", "p2p_warm_peers", "p2p_cold_peers"}

\* MetricsHistory::new
MetricsHistory_new(cap) == [f \in HistoryFields |-> [capacity |-> cap, values |-> <<>>]]

\* the field of the record that MetricsHistory::update reads for a ring
tracked_value(metrics, f) ==
    CASE f = "p2p_hot_peers" -> metrics.p2p.hot_peers
      [] f = "p2p_warm_peers" -> metrics.p2p.warm_peers
      [] f = "p2p_cold_peers" -> metrics.p2p.cold_peers
      [] OTHER -> metrics[f]

\* MetricsHistory::update: the collection after the update
MetricsHistory_update(h, metrics) ==
    [f \in HistoryFields |->
        IF IsSome(tracked_value(metrics, f))
        THEN MetricHistory_push(h[f], Unwrap(tracked_value(metrics, f)))
        ELSE h[f]]

(***************************************************************************)
(* metrics.rs: the record                                                  *)
(***************************************************************************)
\* P2PStats::default()
P2PStats_default ==
    [enabled |-> None, cold_peers |-> None, warm_peers |-> None, hot_peers |-> None]

\* NodeMetrics::default(); raw is a map, here a function from names to values
NodeMetrics_default ==
    [node_type |-> "CardanoNode", node_version |-> None,
     block_height |-> None, slot_num |-> None, epoch |-> None, slot_in_epoch |-> None,
     density |-> None, tx_processed |-> None, mempool_txs |-> None, mempool_bytes |-> None,
     peers_connected |-> None, memory_used |-> None, memory_heap |-> None,
     gc_minor |-> None, gc_major |-> None, forks |-> None, block_delay_s |-> None,
     blocks_served |-> None, blocks_late |-> None, block_delay_cdf_1s |-> None,
     block_delay_cdf_3s |-> None, block_delay_cdf_5s |-> None, cpu_ms |-> None,
     uptime_seconds |-> None, sync_progress |-> None, connected |-> FALSE, raw |-> <<>>,
     kes_period |-> None, kes_remaining |-> None, kes_periods_per_cert |-> None,
     forging_enabled |-> None, is_leader |-> None, blocks_adopted |-> None,
     blocks_didnt_adopt |-> None, about_to_lead |-> None, missed_slots |-> None,
     op_cert_counter_disk |-> None, op_cert_counter_chain |-> None,
     op_cert_start_kes_period |-> None, p2p |-> P2PStats_default,
     node_start_time |-> None, incoming_connections |-> None,
     outgoing_connections |-> None, full_duplex_connections |-> None,
     unidirectional_connections |-> None]

(***************************************************************************)
(* metrics.rs: the parser.  A payload is a sequence of lines and a line is *)
(* a string.  An f64 is [k |-> "fin", n |-> num, d |-> den] for the finite *)
(* value num/den, [k |-> "nan"] for NaN, and [k |-> "inf"] with n = 1 or   *)
(* n = -1 for the two infinities.  The integers of the model are 31 bits   *)
(* wide, so u64 arithmetic is kept at that width: U64_MAX is 2^31 - 1.     *)
(***************************************************************************)
F64(n) == [k |-> "fin", n |-> n, d |-> 1]
NAN == [k |-> "nan", n |-> 0, d |-> 1]
INFINITY == [k |-> "inf", n |-> 1, d |-> 1]
NEG_INFINITY == [k |-> "inf", n |-> -1, d |-> 1]

\* f64::is_finite
is_finite(value) == value.k = "fin"

\* value > 0.0 and value >= 0.0: false of NaN
f64_gt0(value) == value.k # "nan" /\ value.n > 0
f64_ge0(value) == value.k # "nan" /\ value.n >= 0

\* value / c for a positive constant c
f64_div(value, c) == IF is_finite(value) THEN [value EXCEPT !.d = @ * c] ELSE value

\* `value as u64`: the saturating cast.  NaN and every negative value become 0,
\* +inf becomes u64::MAX, a finite value is truncated toward zero.
as_u64(value) ==
    CASE value.k = "nan" -> 0
      [] value.k = "inf" -> IF value.n > 0 THEN U64_MAX ELSE 0
      [] value.k = "fin" -> IF value.n < 0 THEN 0 ELSE value.n \div value.d

\* the i-th character of a string
Char(s, i) == SubSeq(s, i, i)

\* str::find(c) and str::rfind(c): the index of the first and of the last c
find(s, c) ==
    LET I == {i \in 1..Len(s) : Char(s, i) = c}
    IN  IF I = {} THEN None ELSE Some(SetMin(I))
rfind(s, c) ==
    LET I == {i \in 1..Len(s) : Char(s, i) = c}
    IN  IF I = {} THEN None ELSE Some(SetMax(I))

\* str::trim, the white space of the model being the space character
trim(s) ==
    LET I == {i \in 1..Len(s) : Char(s, i) # " "}
    IN  IF I = {} THEN "" ELSE SubSeq(s, SetMin(I), SetMax(I))

\* str::starts_with
starts_with(s, prefix) ==
    Len(s) >= Len(prefix) /\ SubSeq(s, 1, Len(prefix)) = prefix

Digits == "0123456789"
is_digit(c) == \E i \in 1..10 : Char(Digits, i) = c
digit_value(c) == (CHOOSE i \in 1..10 : Char(Digits, i) = c) - 1
all_digits(s) == \A i \in 1..Len(s) : is_digit(Char(s, i))

RECURSIVE decimal(_)
\* the number a string of digits spells; 0 for the empty string
decimal(s) ==
    IF s = "" THEN 0
    ELSE decimal(SubSeq(s, 1, Len(s) - 1)) * 10 + digit_value(Char(s, Len(s)))

RECURSIVE pow10(_)
pow10(k) == IF k = 0 THEN 1 ELSE 10 * pow10(k - 1)

\* str::parse::<f64>: an optional sign, then nan, inf or infinity, or decimal
\* digits with an optional fraction.  Spellings with an exponent are not among the
\* inputs of the model.
parse_f64(str) ==
    LET signed == Len(str) > 0 /\ Char(str, 1) \in {"-", "+"}
        neg == Len(str) > 0 /\ Char(str, 1) = "-"
        body == IF signed THEN SubSeq(str, 2, Len(str)) ELSE str
        dot == find(body, ".")
        whole == IF IsSome(dot) THEN SubSeq(body, 1, Unwrap(dot) - 1) ELSE body
        frac == IF IsSome(dot) THEN SubSeq(body, Unwrap(dot) + 1, Len(body)) ELSE ""
        mag == decimal(whole) * pow10(Len(frac)) + decimal(frac)
    IN  IF body \in {"nan", "NaN", "NAN"} THEN Some(NAN)
        ELSE IF body \in {"inf", "Inf", "INF", "infinity", "Infinity"}
        THEN Some(IF neg THEN NEG_INFINITY ELSE INFINITY)
        ELSE IF all_digits(whole) /\ all_digits(frac) /\ Len(whole) + Len(frac) > 0
        THEN Some([k |-> "fin", n |-> IF neg THEN 0 - mag ELSE mag, d |-> pow10(Len(frac))])
        ELSE None

\* parse_metric_line: Some(<<name, value>>), or None for a line without a name
\* end, without a space, or without a numeric last token
parse_metric_line(line) ==
    LET l == trim(line)
        brace == find(l, "{")
        name_end == IF IsSome(brace) THEN brace ELSE find(l, " ")
        split == rfind(l, " ")
    IN  IF name_end = None \/ split = None THEN None
        ELSE LET name == SubSeq(l, 1, Unwrap(name_end) - 1)
                 value == parse_f64(SubSeq(l, Unwrap(split) + 1, Len(l)))
             IN  IF value = None THEN None ELSE Some(<<name, Unwrap(value)>>)

\* the common prefix of the metric names
M(suffix) == "cardano_node_metrics_" \o suffix

\* one arm of the match on the metric name: the names of its pattern in source
\* order, the field it assigns (a path into NodeMetrics) and how it assigns it:
\*   "u64"           field = Some(value as u64)
\*   "f64"           field = Some(value)
\*   "bool"          field = Some(value > 0.0)
\*   "u64_if_none"   if field.is_none() { field = Some(value as u64) }
\*   "bool_if_none"  if field.is_none() { field = Some(value > 0.0) }
\*   "u64_guarded"   if value >= 0.0 && value.is_finite() { field = Some(value as u64) }
\*   "ns_to_ms"      field = Some((value / 1_000_000.0) as u64)
\*   "ns_to_s"       field = Some(value / 1_000_000_000.0)
Arm(names, field, conv) == [names |-> names, field |-> field, conv |-> conv]

\* the arms of parse_prometheus_metrics, in source order
match_arms == <<
    Arm(<<M("blockNum_int")>>, <<"block_height">>, "u64"),
    Arm(<<M("slotNum_int")>>, <<"slot_num">>, "u64"),
    Arm(<<M("epoch_int")>>, <<"epoch">>, "u64"),
    Arm(<<M("slotInEpoch_int")>>, <<"slot_in_epoch">>, "u64"),
    Arm(<<M("density_real")>>, <<"density">>, "f64"),
    Arm(<<M("txsProcessedNum_int"), M("txsProcessedNum_counter"), M("txsProcessedNum")>>,
        <<"tx_processed">>, "u64"),
    Arm(<<M("forks_int"), M("forks_counter"), M("forks")>>, <<"forks">>, "u64"),
    Arm(<<M("slotsMissedNum_int"), M("slotsMissed_int")>>, <<"missed_slots">>, "u64"),
    Arm(<<M("connectedPeers_int")>>, <<"peers_connected">>, "u64"),
    Arm(<<M("RTS_gcLiveBytes_int")>>, <<"memory_used">>, "u64"),
    Arm(<<M("RTS_gcHeapBytes_int")>>, <<"memory_heap">>, "u64"),
    Arm(<<M("Mem_resident_int")>>, <<"memory_used">>, "u64_if_none"),
    Arm(<<M("RTS_gcMinorNum_int")>>, <<"gc_minor">>, "u64"),
    Arm(<<M("RTS_gcMajorNum_int")>>, <<"gc_major">>, "u64"),
    Arm(<<"rts_gc_cpu_ms">>, <<"cpu_ms">>, "u64"),
    Arm(<<M("RTS_cpuNs_int"), M("RTS_cpu_ns"), M("RTS_cpuNs")>>, <<"cpu_ms">>, "ns_to_ms"),
    Arm(<<M("txsInMempool_int")>>, <<"mempool_txs">>, "u64"),
    Arm(<<M("mempoolBytes_int")>>, <<"mempool_bytes">>, "u64"),
    Arm(<<M("blockfetchclient_blockdelay"), M("blockfetchclient_blockdelay_s"),
          M("blockfetchclient_blockdelay_real")>>, <<"block_delay_s">>, "f64"),
    Arm(<<M("served_block_count_int"), M("served_block_count_counter"),
          M("served_block_counter"), M("served_block_count")>>, <<"blocks_served">>, "u64"),
    Arm(<<M("blockfetchclient_lateblocks"), M("blockfetchclient_lateblocks_int"),
          M("blockfetchclient_lateblocks_counter")>>, <<"blocks_late">>, "u64"),
    Arm(<<M("blockfetchclient_blockdelay_cdfOne"), M("blockfetchclient_blockdelay_cdfOne_real")>>,
        <<"block_delay_cdf_1s">>, "f64"),
    Arm(<<M("blockfetchclient_blockdelay_cdfThree"), M("blockfetchclient_blockdelay_cdfThree_real")>>,
        <<"block_delay_cdf_3s">>, "f64"),
    Arm(<<M("blockfetchclient_blockdelay_cdfFive"), M("blockfetchclient_blockdelay_cdfFive_real")>>,
        <<"block_delay_cdf_5s">>, "f64"),
    Arm(<<M("nodeStartTime_int"), M("node_start_time_int")>>, <<"node_start_time">>, "u64"),
    Arm(<<M("upTime_ns"), M("Stat_startTime")>>, <<"uptime_seconds">>, "ns_to_s"),
    Arm(<<M("connectionManager_incomingConns")>>, <<"incoming_connections">>, "u64"),
    Arm(<<M("connectionManager_outgoingConns")>>, <<"outgoing_connections">>, "u64"),
    Arm(<<M("connectionManager_duplexConns")>>, <<"full_duplex_connections">>, "u64"),
    Arm(<<M("connectionManager_unidirectionalConns")>>, <<"unidirectional_connections">>, "u64"),
    Arm(<<M("connectionManager_fullDuplexConns")>>, <<"full_duplex_connections">>, "u64_if_none"),
    Arm(<<M("p2p_enabled_int")>>, <<"p2p", "enabled">>, "bool"),
    Arm(<<M("p2p_coldPeersCount_int")>>, <<"p2p", "cold_peers">>, "u64"),
    Arm(<<M("p2p_warmPeersCount_int")>>, <<"p2p", "warm_peers">>, "u64"),
    Arm(<<M("p2p_hotPeersCount_int")>>, <<"p2p", "hot_peers">>, "u64"),
    Arm(<<M("peerSelection_cold"), M("peerSelection_Cold_int")>>, <<"p2p", "cold_peers">>, "u64"),
    Arm(<<M("peerSelection_warm"), M("peerSelection_Warm_int")>>, <<"p2p", "warm_peers">>, "u64"),
    Arm(<<M("peerSelection_hot"), M("peerSelection_Hot_int")>>, <<"p2p", "hot_peers">>, "u64"),
    Arm(<<M("currentKESPeriod_int")>>, <<"kes_period">>, "u64_guarded"),
    Arm(<<M("remainingKESPeriods_int")>>, <<"kes_remaining">>, "u64_guarded"),
    Arm(<<M("operationalCertificateExpiryKESPeriod_int")>>, <<"kes_periods_per_cert">>, "u64_guarded"),
    Arm(<<M("forging_enabled_int")>>, <<"forging_enabled">>, "bool"),
    Arm(<<M("Forge_node_is_leader_int")>>, <<"is_leader">>, "bool"),
    Arm(<<M("Forge_adopted_int"), M("blocksForged_int")>>, <<"blocks_adopted">>, "u64"),
    Arm(<<M("Forge_didnt_adopt_int")>>, <<"blocks_didnt_adopt">>, "u64"),
    Arm(<<M("Forge_forge_about_to_lead_int")>>, <<"about_to_lead">>, "u64"),
    Arm(<<M("nodeIsLeader_int")>>, <<"is_leader">>, "bool_if_none"),
    Arm(<<M("operationalCertificateStartKESPeriod_int")>>, <<"op_cert_start_kes_period">>, "u64"),
    Arm(<<M("opCertCounterOnDisk_int")>>, <<"op_cert_counter_disk">>, "u64"),
    Arm(<<M("opCertCounterOnChain_int")>>, <<"op_cert_counter_chain">>, "u64") >>

Range(s) == {s[i] : i \in 1..Len(s)}

\* the names the match recognizes, and the arm each of them selects
ArmNames == UNION {Range(match_arms[i].names) : i \in 1..Len(match_arms)}
ArmOf ==
    [name \in ArmNames |->
        match_arms[CHOOSE i \in 1..Len(match_arms) : name \in Range(match_arms[i].names)]]

\* reading and assigning a field of NodeMetrics by its path
get_field(metrics, field) ==
    IF Len(field) = 1 THEN metrics[field[1]] ELSE metrics[field[1]][field[2]]
set_field(metrics, field, v) ==
    IF Len(field) = 1 THEN [metrics EXCEPT ![field[1]] = v]
    ELSE [metrics EXCEPT ![field[1]][field[2]] = v]

\* the body of the arm selected by a recognized name
apply_arm(metrics, arm, value) ==
    LET assign(v) == set_field(metrics, arm.field, Some(v))
        is_none == get_field(metrics, arm.field) = None
    IN  CASE arm.conv = "u64" -> assign(as_u64(value))
          [] arm.conv = "f64" -> assign(value)
          [] arm.conv = "bool" -> assign(f64_gt0(value))
          [] arm.conv = "u64_if_none" -> IF is_none THEN assign(as_u64(value)) ELSE metrics
          [] arm.conv = "bool_if_none" -> IF is_none THEN assign(f64_gt0(value)) ELSE metrics
          [] arm.conv = "u64_guarded" ->
                IF f64_ge0(value) /\ is_finite(value) THEN assign(as_u64(value)) ELSE metrics
          [] arm.conv = "ns_to_ms" -> assign(as_u64(f64_div(value, 1000000)))
          [] arm.conv = "ns_to_s" -> assign(f64_div(value, 1000000000))

\* the lines of the model's payloads
LineInputs ==
    { M("txsProcessedNum_int 1"), M("txsProcessedNum_counter 2"),
      M("p2p_coldPeersCount_int 1"), M("p2p_coldPeersCount_int +Inf"),
      M("peerSelection_cold 2"), M("peerSelection_warm 1"),
      M("connectedPeers_int 0"), M("connectedPeers_int -1"),
      M("connectedPeers_int NaN"), M("connectedPeers_int 5"),
      M("remainingKESPeriods_int 3"), M("remainingKESPeriods_int -1"),
      M("remainingKESPeriods_int NaN"),
      M("blockNum_int 7"), M("blockNum_int -Inf"), M("blockNum_int abc"),
      M("RTS_gcLiveBytes_int 7"), M("Mem_resident_int 5"),
      M("nodeStartTime_int 1709078400"), M("nodeStartTime_int 1709078401"),
      M("upTime_ns 2000000000"), M("upTime_ns -2000000000"),
      M("slotNum_int 100000000"), M("unknown_int 1"),
      "dingo_x 1", "http_requests_total{method=\"GET\"} 1234",
      M("blockNum_int {era=\"x\"} 8"), "# HELP x", "" }

\* the loop's test for comments and empty lines
skipped(line) == starts_with(line, "#") \/ trim(line) = ""

\* skipped and parse_metric_line over the lines of the model, evaluated once
SkipTable == [line \in LineInputs |-> skipped(line)]
LineTable == [line \in LineInputs |-> parse_metric_line(line)]

\* the body of the loop over text.lines() for one line
parse_line(metrics, line) ==
    IF SkipTable[line] THEN metrics
    ELSE LET parsed == LineTable[line]
         IN  IF parsed = None THEN metrics
             ELSE LET name == Unwrap(parsed)[1]
                      value == Unwrap(parsed)[2]
                      inserted == [metrics EXCEPT !.raw = (name :> value) @@ @]
                  IN  IF name \in ArmNames THEN apply_arm(inserted, ArmOf[name], value)
                      ELSE inserted

RECURSIVE parse_lines(_, _)
\* the loop over text.lines()
parse_lines(metrics, text) ==
    IF text = <<>> THEN metrics
    ELSE parse_lines(parse_line(metrics, Head(text)), Tail(text))

\* detect_node_type
detect_node_type(raw) ==
    IF \E k \in DOMAIN raw : starts_with(k, "dingo_") THEN "Dingo"
    ELSE IF \E k \in DOMAIN raw : starts_with(k, "amaru_") THEN "Amaru"
    ELSE IF \E k \in DOMAIN raw : starts_with(k, "cardano_node_") THEN "CardanoNode"
    ELSE "Unknown"

\* the uptime derivation, its clock read returning t
derive_uptime(metrics, t) ==
    IF IsSome(metrics.node_start_time) /\ t >= Unwrap(metrics.node_start_time)
    THEN [metrics EXCEPT !.uptime_seconds = Some(F64(t - Unwrap(metrics.node_start_time)))]
    ELSE metrics

\* Option<u64>::unwrap_or(0) of the three peer state counts
peer_states(metrics) ==
    <<unwrap_or_0(metrics.p2p.cold_peers), unwrap_or_0(metrics.p2p.warm_peers),
      unwrap_or_0(metrics.p2p.hot_peers)>>

\* the peer fallback is taken
peer_fallback(metrics) ==
    /\ metrics.peers_connected = None
    /\ \E i \in 1..3 : peer_states(metrics)[i] > 0

\* cold + warm + hot exceeds u64::MAX
peer_sum_overflows(metrics) ==
    LET s == peer_states(metrics)
    IN  peer_fallback(metrics)
        /\ (s[1] > U64_MAX - s[2] \/ wrapping_add(s[1], s[2]) > U64_MAX - s[3])

\* mutant of derive_peers: the fallback is taken whenever the direct metric is
\* absent, a sum of zero included
derive_peers_always(metrics) ==
    LET s == peer_states(metrics)
    IN  IF metrics.peers_connected = None
        THEN [metrics EXCEPT !.peers_connected = Some(wrapping_add(wrapping_add(s[1], s[2]), s[3]))]
        ELSE metrics

\* the peer total fallback
derive_peers(metrics) ==
    LET s == peer_states(metrics)
    IN  IF peer_fallback(metrics)
        THEN [metrics EXCEPT !.peers_connected = Some(wrapping_add(wrapping_add(s[1], s[2]), s[3]))]
        ELSE metrics

MAINNET_GENESIS == 1506203091
SHELLEY_TRANSITION_SLOT == 4492800
SHELLEY_TRANSITION_TIME == 1596059091

\* now - MAINNET_GENESIS goes below zero
sync_underflows(metrics, t) ==
    IsSome(metrics.slot_num) /\ t > 0 /\ t <= SHELLEY_TRANSITION_TIME /\ t < MAINNET_GENESIS

\* the expected slot at time t
expected_slot(t) ==
    IF t > SHELLEY_TRANSITION_TIME
    THEN SHELLEY_TRANSITION_SLOT + (t - SHELLEY_TRANSITION_TIME)
    ELSE wrapping_sub(t, MAINNET_GENESIS) \div 20

\* ((slot_num / expected) * 100.0).clamp(0.0, 100.0), in hundredths of a percent
sync_percent(slot_num, expected) ==
    IF slot_num >= expected THEN 10000
    ELSE IF slot_num <= 200000 THEN (slot_num * 10000) \div expected
    ELSE slot_num \div (expected \div 10000)

\* the sync progress derivation, its clock read returning t
derive_sync(metrics, t) ==
    IF IsSome(metrics.slot_num) /\ t > 0 /\ expected_slot(t) > 0
    THEN [metrics EXCEPT
             !.sync_progress = Some(sync_percent(Unwrap(metrics.slot_num), expected_slot(t)))]
    ELSE metrics

\* the record after the loop over the lines
parsed_lines(text) == parse_lines([NodeMetrics_default EXCEPT !.connected = TRUE], text)

\* an addition or subtraction of the derivations leaves the range of u64: a panic
\* where overflow checks are on, a wrapped value where they are off
parse_overflows(text, t) ==
    peer_sum_overflows(parsed_lines(text)) \/ sync_underflows(parsed_lines(text), t)

\* parse_prometheus_metrics, its clock reads returning t, overflow checks off
parse_prometheus_metrics(text, t) ==
    LET looped == parsed_lines(text)
        typed == [looped EXCEPT !.node_type = detect_node_type(looped.raw)]
    IN  derive_sync(derive_peers(derive_uptime(typed, t)), t)

(***************************************************************************)
(* app.rs                                                                  *)
(***************************************************************************)
\* NodeState::peer_health
peer_health(metrics) ==
    LET peers == metrics.peers_connected
    IN  IF IsSome(peers) /\ Unwrap(peers) >= 5 THEN "Good"
        ELSE IF IsSome(peers) /\ Unwrap(peers) >= 2 THEN "Warning"
        ELSE IF IsSome(peers) THEN "Critical"
        ELSE "Warning"

(***************************************************************************)
(* storage.rs                                                              *)
(***************************************************************************)
DEFAULT_RETENTION_DAYS == 30
MIN_SAMPLE_INTERVAL_SECS == 3600

\* sanitize_node_name("Test Node")
StorageNodeName == "test_node"

\* MetricSnapshot::from_metrics, its clock read returning t
from_metrics(metrics, t) ==
    [timestamp |-> t,
     block_height |-> metrics.block_height,
     slot_num |-> metrics.slot_num,
     epoch |-> metrics.epoch,
     slot_in_epoch |-> metrics.slot_in_epoch,
     peers_connected |-> metrics.peers_connected,
     memory_used |-> metrics.memory_used,
     mempool_txs |-> metrics.mempool_txs,
     mempool_bytes |-> metrics.mempool_bytes,
     sync_progress |-> metrics.sync_progress,
     kes_period |-> metrics.kes_period,
     kes_remaining |-> metrics.kes_remaining]

is_leap_year(year) ==
    (year % 4 = 0 /\ year % 100 # 0) \/ (year % 400 = 0)

days_in_months(year) ==
    IF is_leap_year(year)
    THEN <<31, 29, 31, 30, 31, 30, 31, 31, 30, 31, 30, 31>>
    ELSE <<31, 28, 31, 30, 31, 30, 31, 31, 30, 31, 30, 31>>

RECURSIVE year_of(_, _)
\* the year loop of timestamp_to_date: <<year, remaining_days>>
year_of(remaining_days, year) ==
    LET days_in_year == IF is_leap_year(year) THEN 366 ELSE 365
    IN  IF remaining_days < days_in_year
        THEN <<year, remaining_days>>
        ELSE year_of(remaining_days - days_in_year, year + 1)

RECURSIVE month_of(_, _, _)
\* the month loop of timestamp_to_date: <<month, remaining_days>>
month_of(remaining_days, month, dim) ==
    IF month > 12 \/ remaining_days < dim[month]
    THEN <<month, remaining_days>>
    ELSE month_of(remaining_days - dim[month], month + 1, dim)

\* timestamp_to_date after its division: the date of the day days_since_epoch
days_to_date(days_since_epoch) ==
    LET y == year_of(days_since_epoch, 1970)
        m == month_of(y[2], 1, days_in_months(y[1]))
    IN  <<y[1], m[1], m[2] + 1>>

\* timestamp_to_date: <<year, month, day>>
timestamp_to_date(ts) == days_to_date(ts \div 86400)

\* mutant of days_before_year: every year taken as 365 days
days_before_year_common(year) ==
    IF year <= 1970 THEN 0 ELSE (year - 1970) * 365

\* date_to_timestamp: the days of the years 1970..year-1, the sum of the loop
\* for y in 1970..year (365 for each year and one more for each leap year)
days_before_year(year) ==
    IF year <= 1970 THEN 0
    ELSE (year - 1970) * 365 + Cardinality({y \in 1970..(year - 1) : is_leap_year(y)})

RECURSIVE days_before_month(_, _)
\* date_to_timestamp: the days of the first n months, days_in_months.iter().take(n)
days_before_month(dim, n) ==
    IF n <= 0 THEN 0
    ELSE IF n > 12 THEN days_before_month(dim, 12)
    ELSE days_before_month(dim, n - 1) + dim[n]

\* date_to_timestamp before its multiplication: the days before the date, for
\* month >= 1 and day >= 1
date_to_days(year, month, day) ==
    days_before_year(year) + days_before_month(days_in_months(year), month - 1) + (day - 1)

\* date_to_timestamp
date_to_timestamp(year, month, day) == date_to_days(year, month, day) * 86400

\* format!("{:02}", n)
fmt02(n) == IF n < 10 THEN "0" \o ToString(n) ELSE ToString(n)

\* format!("{:04}", n)
fmt04(n) ==
    IF n < 10 THEN "000" \o ToString(n)
    ELSE IF n < 100 THEN "00" \o ToString(n)
    ELSE IF n < 1000 THEN "0" \o ToString(n)
    ELSE ToString(n)

\* the numbers whose decimal spellings the model's paths use: days, months and years
ParseRange == (1..31) \cup {2023, 2024}

\* str::parse::<u32>: Some(n) for a decimal spelling of n (leading zeros allowed)
parse_u32(str) ==
    {n \in ParseRange : str \in {ToString(n), fmt02(n), fmt04(n)}}

\* StorageManager::date_dir, below history/<node_name>/
date_dir(year, month) == <<fmt04(year), fmt02(month)>>

\* StorageManager::date_file; a file name is the sequence of its '.'-separated parts
date_file(year, month, day) ==
    <<fmt04(year), fmt02(month), <<fmt02(day), "json", "gz">>>>

\* Path::file_stem: the file name up to its final '.'
file_stem(file_name) ==
    IF Len(file_name) = 1 THEN file_name ELSE SubSeq(file_name, 1, Len(file_name) - 1)

\* file_stem()?.to_str()?.parse().ok()?: a stem that still holds a '.' is no number
parse_stem(file_name) ==
    IF Len(file_stem(file_name)) = 1 THEN parse_u32(file_stem(file_name)[1]) ELSE None

\* parse_date_from_path
parse_date_from_path(path) ==
    LET day == parse_stem(path[3])
        month == parse_u32(path[2])
        year == parse_u32(path[1])
    IN  IF IsSome(day) /\ IsSome(month) /\ IsSome(year)
        THEN Some(date_to_timestamp(Unwrap(year), Unwrap(month), Unwrap(day)))
        ELSE None

\* a DailySnapshots value as a file content
DailyFile(snapshots) ==
    [ok |-> TRUE, node_name |-> StorageNodeName, snapshots |-> snapshots]

\* a daily file whose bytes were damaged after it was written: the snapshots it held
\* cannot be decompressed or parsed
DamagedFile(snapshots) ==
    [ok |-> FALSE, node_name |-> StorageNodeName, snapshots |-> snapshots]

\* what File::create leaves when the write after it fails: no readable daily file
\* (the file was truncated and holds nothing, or part of the compressed stream)
CorruptFile == [ok |-> FALSE, node_name |-> "", snapshots |-> <<>>]

\* 2024-02-28T00:00:00Z, the first day of the storage runs
FirstDay == date_to_timestamp(2024, 2, 28)

\* the clock values of the storage runs: the start of each day, the sampling interval's
\* boundary in it, and its last second
StorageClock ==
    {FirstDay + d * 86400 + sec :
        d \in 0..MaxDays, sec \in {0, MIN_SAMPLE_INTERVAL_SECS - 1, MIN_SAMPLE_INTERVAL_SECS, 86399}}
    \cup {FirstDay + (MaxDays + 1) * 86400}

\* create_test_metrics() of the storage tests (memory_used in millions of bytes),
\* and a record of a failed fetch
TestMetrics ==
    [NodeMetrics_default EXCEPT
        !.connected = TRUE, !.block_height = Some(10500000), !.slot_num = Some(125000000),
        !.epoch = Some(450), !.slot_in_epoch = Some(50000), !.peers_connected = Some(5),
        !.memory_used = Some(8000), !.mempool_txs = Some(10), !.mempool_bytes = Some(5000),
        !.sync_progress = Some(10000), !.kes_period = Some(350), !.kes_remaining = Some(42)]
DisconnectedMetrics == [TestMetrics EXCEPT !.connected = FALSE]
RecordInputs == {TestMetrics, DisconnectedMetrics}

\* files a previous run can have left under history/<node_name>/
OldSnapshot(year, month, day) ==
    from_metrics(TestMetrics, date_to_timestamp(year, month, day))
LeftoverFiles ==
    (<<"2024", "01", <<"15", "json", "gz">>>> :> DailyFile(<<OldSnapshot(2024, 1, 15)>>))
    @@ (<<"2024", "02", <<"27", "json", "gz">>>> :> DailyFile(<<OldSnapshot(2024, 2, 27)>>))
    @@ (<<"2023", "12", <<"31", "gz">>>> :> CorruptFile)

\* the paths of the model: the leftover files and the daily file of every clock value
ModelPaths ==
    DOMAIN LeftoverFiles
    \cup {date_file(timestamp_to_date(t)[1], timestamp_to_date(t)[2], timestamp_to_date(t)[3]) :
             t \in StorageClock}

\* timestamp_to_date and parse_date_from_path over the model's clock values and
\* paths, evaluated once
DateOfClock == [t \in StorageClock |-> timestamp_to_date(t)]
DateOfPath == [q \in ModelPaths |-> parse_date_from_path(q)]

\* StorageManager::current_date, its clock read returning t
current_date(t) == DateOfClock[t]

\* mutant of load_daily_file: whatever the file holds is taken as a daily file
load_daily_file_unchecked(path) ==
    IF path \in DOMAIN files THEN Some(files[path]) ELSE None

\* StorageManager::load_daily_file: the daily file, or None when it is missing or corrupt
load_daily_file(path) ==
    IF path \in DOMAIN files /\ files[path].ok THEN Some(files[path]) ELSE None

\* mutant of save_rate_limited: the interval ends one second early
save_rate_limited_short(t) ==
    IsSome(last_save_timestamp)
    /\ t - Unwrap(last_save_timestamp) < MIN_SAMPLE_INTERVAL_SECS - 1

\* the hourly-sampling test of save_snapshot
save_rate_limited(t) ==
    IsSome(last_save_timestamp)
    /\ wrapping_sub(t, Unwrap(last_save_timestamp)) < MIN_SAMPLE_INTERVAL_SECS

\* the value save_snapshot stores in last_save_timestamp after a write: its first clock read
saved_timestamp(t) == Some(t)

\* fs::create_dir_all(dir)
dirs_after_create(dir) == dirs \cup {<<dir[1]>>, dir}

\* the number of snapshots in the readable daily files
TotalSnapshots ==
    LET paths == {q \in DOMAIN files : files[q].ok}
        RECURSIVE sum(_)
        sum(S) == IF S = {} THEN 0
                  ELSE LET q == CHOOSE x \in S : TRUE
                       IN  Len(files[q].snapshots) + sum(S \ {q})
    IN  sum(paths)

\* mutant of snapshots_after_push: the new snapshot replaces the day's snapshots
snapshots_replaced(daily, snapshot) == <<snapshot>>

\* mutant of snapshots_after_push: the new snapshot is inserted at the front
snapshots_prepended(daily, snapshot) == <<snapshot>> \o daily.snapshots

\* daily.snapshots.push(snapshot)
snapshots_after_push(daily, snapshot) == Append(daily.snapshots, snapshot)

\* mutant of node_disconnected: the connected flag is not looked at
node_disconnected_ignored(metrics) == FALSE

\* the connected test of save_snapshot
node_disconnected(metrics) == ~metrics.connected

\* StorageManager::save_snapshot.  The call reads the clock three times: now (the
\* interval test), t2 (the snapshot's timestamp) and t3 (the current date).  io is
\* what the file system does: "ok"; "mkdir_fail", create_dir_all fails; "create_fail",
\* File::create fails; "write_fail", write_all or finish fails; "flush_fail", the
\* bytes are still in the BufWriter when finish returns it and the write made by its
\* drop fails, which the drop ignores.
save_snapshot_body(metrics, t2, t3, io) ==
    LET snapshot == from_metrics(metrics, t2)
        date == current_date(t3)
        dir == date_dir(date[1], date[2])
        file_path == date_file(date[1], date[2], date[3])
        loaded == load_daily_file(file_path)
        daily == IF IsSome(loaded) THEN Unwrap(loaded) ELSE DailyFile(<<>>)
        written == [daily EXCEPT !.snapshots = snapshots_after_push(daily, snapshot)]
    IN  IF save_rate_limited(now) \/ node_disconnected(metrics)
        THEN /\ t2 = now /\ t3 = now /\ io = "ok"
             /\ UNCHANGED <<now, last_save_timestamp, dirs, files, true_saves>>
        ELSE /\ now' = t3
             /\ CASE io = "mkdir_fail" ->
                       UNCHANGED <<last_save_timestamp, dirs, files, true_saves>>
                  [] io = "create_fail" ->
                       /\ dirs' = dirs_after_create(dir)
                       /\ UNCHANGED <<last_save_timestamp, files, true_saves>>
                  [] io = "write_fail" ->
                       /\ dirs' = dirs_after_create(dir)
                       /\ files' = (file_path :> CorruptFile) @@ files
                       /\ UNCHANGED <<last_save_timestamp, true_saves>>
                  [] io = "flush_fail" ->
                       /\ Len(true_saves) < MaxSaved
                       /\ dirs' = dirs_after_create(dir)
                       /\ files' = (file_path :> CorruptFile) @@ files
                       /\ last_save_timestamp' = saved_timestamp(now)
                       /\ true_saves' = Append(true_saves, now)
                  [] io = "ok" ->
                       /\ Len(true_saves) < MaxSaved
                       /\ dirs' = dirs_after_create(dir)
                       /\ files' = (file_path :> written) @@ files
                       /\ last_save_timestamp' = saved_timestamp(now)
                       /\ true_saves' = Append(true_saves, now)

\* what the call returns, and the file system outcome it met ("none" when it
\* returned before any file system call)
save_snapshot_result(metrics, io) ==
    IF save_rate_limited(now) \/ node_disconnected(metrics) THEN <<"Ok(false)", "none">>
    ELSE IF io \in {"mkdir_fail", "create_fail", "write_fail"} THEN <<"Err", io>>
    ELSE <<"Ok(true)", io>>

\* a call of save_snapshot on its own
save_snapshot(metrics, t2, t3, io) ==
    /\ save_snapshot_body(metrics, t2, t3, io)
    /\ last_op' = [op |-> "save_snapshot", arg |-> <<metrics.connected>>,
                   ret |-> save_snapshot_result(metrics, io)[1],
                   io |-> save_snapshot_result(metrics, io)[2]]
    /\ UNCHANGED <<retention_days, alert_vars, history_vars, parse_vars, app_vars>>

\* the daily files load_history visits at time t, in the order of its loop: the file
\* of t, of t minus one day, ... (now.saturating_sub(days_ago * 86400))
history_paths(t, days) ==
    [k \in 1..days |->
        LET days_ago == k - 1
            target_ts == IF t >= days_ago * 86400 THEN t - days_ago * 86400 ELSE 0
            date == timestamp_to_date(target_ts)
        IN  date_file(date[1], date[2], date[3])]

RECURSIVE sort_by_timestamp(_)
\* all_snapshots.sort_by_key(|s| s.timestamp): a stable sort
sort_by_timestamp(snapshots) ==
    IF snapshots = <<>> THEN <<>>
    ELSE LET front == sort_by_timestamp(SubSeq(snapshots, 1, Len(snapshots) - 1))
             x == Last(snapshots)
             k == Cardinality({i \in 1..Len(front) : front[i].timestamp <= x.timestamp})
         IN  SubSeq(front, 1, k) \o <<x>> \o SubSeq(front, k + 1, Len(front))

RECURSIVE extend_all_stopping(_, _)
\* mutant of extend_all: the first file that is missing or fails to load ends the loop
extend_all_stopping(paths, all_snapshots) ==
    IF paths = <<>> THEN all_snapshots
    ELSE LET loaded == load_daily_file(Head(paths))
         IN  IF IsSome(loaded)
             THEN extend_all_stopping(Tail(paths), all_snapshots \o Unwrap(loaded).snapshots)
             ELSE all_snapshots

RECURSIVE extend_all(_, _)
\* the loop of load_history over the visited files: a file that exists and loads
\* adds its snapshots, any other adds nothing
extend_all(paths, all_snapshots) ==
    IF paths = <<>> THEN all_snapshots
    ELSE LET loaded == load_daily_file(Head(paths))
         IN  extend_all(Tail(paths),
                        IF IsSome(loaded) THEN all_snapshots \o Unwrap(loaded).snapshots
                        ELSE all_snapshots)

\* StorageManager::load_history, its clock read returning t
load_history(max_samples, t) ==
    LET all_snapshots == sort_by_timestamp(extend_all(history_paths(t, retention_days), <<>>))
    IN  IF Len(all_snapshots) > max_samples
        THEN SubSeq(all_snapshots, Len(all_snapshots) - max_samples + 1, Len(all_snapshots))
        ELSE all_snapshots

\* timestamp_to_iso8601 of storage.rs: "YYYY-MM-DDTHH:MM:SSZ"
timestamp_to_iso8601(ts) ==
    LET date == timestamp_to_date(ts)
        seconds_in_day == ts % 86400
    IN  fmt04(date[1]) \o "-" \o fmt02(date[2]) \o "-" \o fmt02(date[3]) \o "T"
        \o fmt02(seconds_in_day \div 3600) \o ":" \o fmt02((seconds_in_day % 3600) \div 60)
        \o ":" \o fmt02(seconds_in_day % 60) \o "Z"

\* opt_to_csv: the decimal digits of the value, the empty string for None
opt_to_csv(opt) == IF IsSome(opt) THEN ToString(Unwrap(opt)) ELSE ""

\* opt_f64_to_csv: format!("{:.2}") of the value (held in hundredths), the empty
\* string for None
opt_f64_to_csv(opt) ==
    IF IsSome(opt)
    THEN ToString(Unwrap(opt) \div 100) \o "." \o fmt02(Unwrap(opt) % 100)
    ELSE ""

\* the header row of export_to_csv, as its comma-separated cells
csv_header ==
    <<"timestamp", "datetime", "block_height", "slot_num", "epoch", "slot_in_epoch",
      "peers_connected", "memory_used_bytes", "mempool_txs", "mempool_bytes",
      "sync_progress", "kes_period", "kes_remaining">>

\* one data row of export_to_csv, as its comma-separated cells
csv_row(snapshot) ==
    <<ToString(snapshot.timestamp), timestamp_to_iso8601(snapshot.timestamp),
      opt_to_csv(snapshot.block_height), opt_to_csv(snapshot.slot_num),
      opt_to_csv(snapshot.epoch), opt_to_csv(snapshot.slot_in_epoch),
      opt_to_csv(snapshot.peers_connected), opt_to_csv(snapshot.memory_used),
      opt_to_csv(snapshot.mempool_txs), opt_to_csv(snapshot.mempool_bytes),
      opt_f64_to_csv(snapshot.sync_progress), opt_to_csv(snapshot.kes_period),
      opt_to_csv(snapshot.kes_remaining)>>

\* the rows export_to_csv writes for the loaded snapshots
csv_rows(snapshots) ==
    <<csv_header>> \o [i \in 1..Len(snapshots) |-> csv_row(snapshots[i])]

\* StorageManager::export_to_csv, its clock read returning t.  io is the outcome of
\* the output file: a failed File::create leaves no file, a failed write or flush
\* leaves the rows written before it.
export_to_csv(t, io, written) ==
    LET snapshots == load_history(U64_MAX, t)
        rows == csv_rows(snapshots)
    IN  /\ last_op' =
              CASE io = "create_fail" ->
                      [op |-> "export_to_csv", arg |-> <<>>, ret |-> "Err", count |-> 0,
                       csv |-> None]
                [] io = "write_fail" ->
                      [op |-> "export_to_csv", arg |-> <<>>, ret |-> "Err", count |-> 0,
                       csv |-> Some(SubSeq(rows, 1, IF written <= Len(rows) THEN written
                                                    ELSE Len(rows)))]
                [] OTHER ->
                      [op |-> "export_to_csv", arg |-> <<>>, ret |-> "Ok",
                       count |-> Len(snapshots), csv |-> Some(rows)]
        /\ UNCHANGED <<now, alert_vars, history_vars, storage_vars, parse_vars, app_vars>>

\* the files cleanup_old_data removes: those whose path parses to a date before the cutoff
files_to_remove(cutoff) ==
    {q \in DOMAIN files : IsSome(DateOfPath[q]) /\ Unwrap(DateOfPath[q]) < cutoff}

\* the directories cleanup_old_data leaves: a month directory goes when no file is
\* left in it, a year directory when no month directory is left in it
dirs_after_cleanup(kept) ==
    LET months == {d \in dirs : Len(d) = 2 /\ \E q \in kept : q[1] = d[1] /\ q[2] = d[2]}
        years == {d \in dirs : Len(d) = 1 /\ \E m \in months : m[1] = d[1]}
    IN  months \cup years

\* StorageManager::cleanup_old_data, every file system call succeeding
cleanup_old_data ==
    LET cutoff == IF now >= retention_days * 86400 THEN now - retention_days * 86400 ELSE 0
        removed == files_to_remove(cutoff)
        kept == DOMAIN files \ removed
    IN  /\ files' = [q \in kept |-> files[q]]
        /\ dirs' = dirs_after_cleanup(kept)
        /\ last_op' = [op |-> "cleanup_old_data", arg |-> <<>>, ret |-> Cardinality(removed)]
        /\ UNCHANGED <<now, retention_days, last_save_timestamp, true_saves,
                       alert_vars, history_vars, parse_vars, app_vars>>

\* StorageManager::new, and with_retention_days(days)
StorageManager_new(days) ==
    /\ retention_days = days
    /\ last_save_timestamp = None
    /\ true_saves = <<>>

(***************************************************************************)
(* The environment: inputs and the clock.                                  *)
(***************************************************************************)
\* the clock values of the alert runs: each cooldown boundary, and the second before it
AlertClock ==
    {t \in 0..MaxNow : \E c \in {PEER_COOLDOWN, SYNC_COOLDOWN, KES_COOLDOWN} :
                          t = 0 \/ t = c - 1 \/ t = c}

KesInputs == {None, Some(4), Some(5)}
PeerInputs == {None, Some(0), Some(1), Some(2)}
SyncInputs == {None, Some(8999), Some(9000), Some(9500)}
AgeInputs == {None, Some(300), Some(301)}
HeightInputs == {Some(7)}

\* the wall clock advances
Tick ==
    /\ \E t \in AlertClock : t > now /\ now' = t
    /\ last_op' = [op |-> "tick", arg |-> <<>>]
    /\ UNCHANGED <<alert_vars, history_vars, storage_vars, parse_vars, app_vars>>

CheckKes == \E v \in KesInputs : check_kes_expiry(v)
CheckPeers == \E v \in PeerInputs : check_peer_count(v)
CheckSync == \E v \in SyncInputs : check_sync_progress(v)
CheckStall == \E h \in HeightInputs, a \in AgeInputs : check_block_stall(h, a)

\* AlertManager::new
AlertManager_new ==
    /\ log_lines = <<>>
    /\ recent_alerts = <<>>
    /\ emitted = <<>>
    /\ last_kes_warning = None
    /\ last_peer_warning = None
    /\ last_sync_warning = None
    /\ last_height_stall_warning = None

\* the parts of the state a specification does not exercise
AlertsIdle == log_file = "unwritable" /\ AlertManager_new
HistoryIdle == MetricHistory_new(0)
StorageIdle == StorageManager_new(DEFAULT_RETENTION_DAYS) /\ dirs = {} /\ files = <<>>
ParseIdle == payload = <<>> /\ node_metrics = NodeMetrics_default
AppIdle ==
    /\ history = MetricsHistory_new(0)
    /\ last_error = None
    /\ fetch_count = 0
    /\ last_block_height = None
    /\ last_block_time = None
    /\ updates = <<>>

InitAlerts ==
    /\ now = 0
    /\ last_op = [op |-> "new", arg |-> <<>>]
    /\ log_file \in {"unwritable", "writable"}
    /\ AlertManager_new
    /\ HistoryIdle
    /\ StorageIdle
    /\ ParseIdle
    /\ AppIdle

NextAlerts == Tick \/ CheckKes \/ CheckPeers \/ CheckSync \/ CheckStall

SpecAlerts == InitAlerts /\ [][NextAlerts]_vars

Push == \E v \in 0..MaxValue : push(v)
Clear == clear
\* a call of trend() on the buffer
Trend ==
    /\ last_op' = [op |-> "trend", arg |-> <<>>, ret |-> trend]
    /\ UNCHANGED <<now, alert_vars, history_vars, storage_vars, parse_vars, app_vars>>

InitHistory ==
    /\ now = 0
    /\ last_op = [op |-> "new", arg |-> <<>>]
    /\ AlertsIdle
    /\ StorageIdle
    /\ ParseIdle
    /\ AppIdle
    /\ \E cap \in 0..MaxCapacity : MetricHistory_new(cap)

NextHistory == Push \/ Clear \/ Trend

SpecHistory == InitHistory /\ [][NextHistory]_vars

StorageTick ==
    /\ \E t \in StorageClock : t > now /\ now' = t
    /\ last_op' = [op |-> "tick", arg |-> <<>>]
    /\ UNCHANGED <<alert_vars, history_vars, storage_vars, parse_vars, app_vars>>

SaveSnapshot ==
    \E metrics \in RecordInputs, t2 \in StorageClock, t3 \in StorageClock,
       io \in {"ok", "mkdir_fail", "create_fail", "write_fail", "flush_fail"} :
        /\ now <= t2 /\ t2 <= t3 /\ t3 <= now + MaxCallLag
        /\ save_snapshot(metrics, t2, t3, io)

CleanupOldData == cleanup_old_data

InitStorage ==
    /\ now = FirstDay
    /\ last_op = [op |-> "new", arg |-> <<>>]
    /\ AlertsIdle
    /\ HistoryIdle
    /\ ParseIdle
    /\ AppIdle
    /\ \E days \in {1, DEFAULT_RETENTION_DAYS} : StorageManager_new(days)
    /\ \E present \in SUBSET (DOMAIN LeftoverFiles) :
          /\ files = [q \in present |-> LeftoverFiles[q]]
          /\ dirs = UNION {{<<q[1]>>, <<q[1], q[2]>>} : q \in present}

NextStorage == StorageTick \/ SaveSnapshot \/ CleanupOldData

SpecStorage == InitStorage /\ [][NextStorage]_vars

\* the clock values of the history loads: a clock that reads the epoch, 2024-02-28
\* and the day after
LoadClock == {0, FirstDay, FirstDay + 86400}

\* the daily files earlier saves can have left: two snapshots of 2024-02-28, one of the
\* day before, a damaged file of 2024-02-26, one of 2024-02-01, and one saved when the clock read 0
StoredFiles ==
    (date_file(2024, 2, 28) :> DailyFile(<<from_metrics(TestMetrics, FirstDay),
                                           from_metrics(TestMetrics, FirstDay + 3600)>>))
    @@ (date_file(2024, 2, 27) :> DailyFile(<<OldSnapshot(2024, 2, 27)>>))
    @@ (date_file(2024, 2, 26) :> DamagedFile(<<OldSnapshot(2024, 2, 26)>>))
    @@ (date_file(2024, 2, 1) :> DailyFile(<<OldSnapshot(2024, 2, 1)>>))
    @@ (date_file(1970, 1, 1) :> DailyFile(<<from_metrics(TestMetrics, 0)>>))

LoadHistory ==
    /\ \E max_samples \in 0..MaxSamples :
          last_op' = [op |-> "load_history", arg |-> <<max_samples>>,
                      ret |-> load_history(max_samples, now)]
    /\ UNCHANGED <<now, alert_vars, history_vars, storage_vars, parse_vars, app_vars>>

InitLoad ==
    /\ now \in LoadClock
    /\ last_op = [op |-> "new", arg |-> <<>>]
    /\ AlertsIdle
    /\ HistoryIdle
    /\ ParseIdle
    /\ AppIdle
    /\ \E days \in {1, 2, DEFAULT_RETENTION_DAYS} : StorageManager_new(days)
    /\ \E present \in SUBSET (DOMAIN StoredFiles) :
          /\ files = [q \in present |-> StoredFiles[q]]
          /\ dirs = UNION {{<<q[1]>>, <<q[1], q[2]>>} : q \in present}

NextLoad == LoadHistory

SpecLoad == InitLoad /\ [][NextLoad]_vars

\* one more line of the response text arrives
ReceiveLine ==
    /\ last_op.op \in {"new", "receive_line"}
    /\ Len(payload) < MaxLines
    /\ \E line \in LineInputs : payload' = Append(payload, line)
    /\ last_op' = [op |-> "receive_line", arg |-> <<>>]
    /\ UNCHANGED <<now, node_metrics, alert_vars, history_vars, storage_vars, app_vars>>

\* parse_prometheus_metrics(&payload).  Where the derivations overflow, the build
\* decides: a panic with overflow checks, the wrapped value without.
Parse ==
    /\ last_op.op \in {"new", "receive_line"}
    /\ \E overflow_checks \in BOOLEAN :
          IF parse_overflows(payload, now) /\ overflow_checks
          THEN /\ last_op' = [op |-> "parse_prometheus_metrics", arg |-> <<>>, ret |-> "panic"]
               /\ UNCHANGED node_metrics
          ELSE /\ last_op' = [op |-> "parse_prometheus_metrics", arg |-> <<>>, ret |-> "Ok"]
               /\ node_metrics' = parse_prometheus_metrics(payload, now)
    /\ UNCHANGED <<now, payload, alert_vars, history_vars, storage_vars, app_vars>>

\* check_peer_count on the parsed record
CheckRecordPeers ==
    /\ last_op.op \in {"parse_prometheus_metrics", "check_peer_count"}
    /\ last_op.op = "parse_prometheus_metrics" => last_op.ret = "Ok"
    /\ check_peer_count(node_metrics.peers_connected)

InitParse ==
    /\ now = FirstDay
    /\ last_op = [op |-> "new", arg |-> <<>>]
    /\ AlertsIdle
    /\ HistoryIdle
    /\ StorageIdle
    /\ ParseIdle
    /\ AppIdle

NextParse == ReceiveLine \/ Parse \/ CheckRecordPeers

SpecParse == InitParse /\ [][NextParse]_vars

\* the alerts of an alert manager that has run for a while: one short of a full ring,
\* a peer alert every PEER_COOLDOWN seconds
PastAlerts == [i \in 1..(max_recent - 1) |-> peer_alert(PEER_COOLDOWN * (i - 1), 1)]

\* the time of the last of them, and the clock values of the runs that follow
PastTime == PEER_COOLDOWN * (max_recent - 2)
RingClock == {PastTime + t : t \in {PEER_COOLDOWN - 1, PEER_COOLDOWN, STALL_COOLDOWN}}

RingTick ==
    /\ \E t \in RingClock : t > now /\ now' = t
    /\ last_op' = [op |-> "tick", arg |-> <<>>]
    /\ UNCHANGED <<alert_vars, history_vars, storage_vars, parse_vars, app_vars>>

\* the alert manager after PastAlerts, with each kind of log file; emitted counts
\* from here
InitRing ==
    /\ now = PastTime + PEER_COOLDOWN - 1
    /\ last_op = [op |-> "new", arg |-> <<>>]
    /\ log_file \in {"none", "unopenable", "unwritable", "writable"}
    /\ log_lines = (IF log_file = "writable"
                    THEN [i \in 1..Len(PastAlerts) |-> log_format(PastAlerts[i])]
                    ELSE <<>>)
    /\ recent_alerts = PastAlerts
    /\ emitted = <<>>
    /\ last_kes_warning = None
    /\ last_peer_warning = Some(PastTime)
    /\ last_sync_warning = None
    /\ last_height_stall_warning = None
    /\ HistoryIdle
    /\ StorageIdle
    /\ ParseIdle
    /\ AppIdle

NextRing == RingTick \/ CheckKes \/ CheckPeers \/ CheckSync \/ CheckStall

SpecRing == InitRing /\ [][NextRing]_vars

(***************************************************************************)
(* Claims about the alert manager, checked under SpecAlerts.  No run emits *)
(* max_recent alerts and nothing clears the ring, so recent_alerts is the  *)
(* whole emission history of the run.                                      *)
(***************************************************************************)
CheckOps == {"check_kes_expiry", "check_peer_count", "check_sync_progress", "check_block_stall"}

TitleOf(op) ==
    CASE op = "check_kes_expiry" -> "KES Expiry Critical"
      [] op = "check_peer_count" -> "Low Peer Count"
      [] op = "check_sync_progress" -> "Sync Progress Degraded"
      [] op = "check_block_stall" -> "Block Height Stalled"

\* the cooldowns as the claims state them
StatedCooldown(op) ==
    CASE op = "check_kes_expiry" -> 3600
      [] op = "check_peer_count" -> 300
      [] op = "check_sync_progress" -> 600
      [] op = "check_block_stall" -> 600

\* the value is present and past the threshold as the claims state it
StatedUnhealthy(op, value) ==
    /\ IsSome(value)
    /\ CASE op = "check_kes_expiry" -> Unwrap(value) < 5
         [] op = "check_peer_count" -> Unwrap(value) < 2
         [] op = "check_sync_progress" -> Unwrap(value) < 9500
         [] op = "check_block_stall" -> Unwrap(value) > 300

\* the times at which alerts of the category were emitted so far
FiredTimes(op) ==
    {recent_alerts[i].timestamp :
        i \in {j \in 1..Len(recent_alerts) : recent_alerts[j].title = TitleOf(op)}}

\* the category has fired and its cooldown has not elapsed at the current time
InCooldown(op) ==
    FiredTimes(op) # {} /\ now - SetMax(FiredTimes(op)) < StatedCooldown(op)

\* the step is a call of op with an unhealthy value
UnhealthyCheckStep(op) ==
    last_op'.op = op /\ StatedUnhealthy(op, last_op'.arg[1])

EmitsOne(op) ==
    /\ Len(recent_alerts') = Len(recent_alerts) + 1
    /\ SubSeq(recent_alerts', 1, Len(recent_alerts)) = recent_alerts
    /\ Last(recent_alerts').title = TitleOf(op)
    /\ Last(recent_alerts').timestamp = now

\* C1: a check with an unhealthy value emits exactly one alert when its category
\* has never fired or fired at least its cooldown ago, and emits nothing when the
\* category fired less than its cooldown ago (KES 3600 s, peers 300 s, sync 600 s,
\* stall 600 s).
C1_CooldownGate ==
    [][\A op \in CheckOps :
          UnhealthyCheckStep(op) =>
              IF InCooldown(op) THEN recent_alerts' = recent_alerts ELSE EmitsOne(op)]_vars

\* C1 witness: a category fired, stayed silent, and fired again one cooldown later
C1_Witness ==
    /\ Len(recent_alerts) = 2
    /\ recent_alerts[1].title = "KES Expiry Critical"
    /\ recent_alerts[2].title = "KES Expiry Critical"
    /\ recent_alerts[2].timestamp = recent_alerts[1].timestamp + 3600

\* C9: a check made while its category's cooldown has not elapsed changes nothing:
\* the ring, the log file and every last-alert timestamp stay as they were.
C9_SuppressedCheckChangesNothing ==
    [][\A op \in CheckOps :
          (UnhealthyCheckStep(op) /\ InCooldown(op)) => UNCHANGED alert_vars]_vars

\* C9 witness: peers 1 fired a Warning, then peers 0 was checked inside the cooldown
C9_Witness ==
    /\ last_op = [op |-> "check_peer_count", arg |-> <<Some(0)>>]
    /\ Len(recent_alerts) = 1
    /\ recent_alerts[1].title = "Low Peer Count"
    /\ recent_alerts[1].severity = "Warning"
    /\ now > recent_alerts[1].timestamp
    /\ now - recent_alerts[1].timestamp < 300
    /\ log_lines # <<>>

\* C10: a check called with a healthy or an absent value changes nothing: the ring,
\* the log file and every last-alert timestamp stay as they were.
C10_HealthyCheckChangesNothing ==
    [][\A op \in CheckOps :
          (last_op'.op = op /\ ~StatedUnhealthy(op, last_op'.arg[1]))
              => UNCHANGED alert_vars]_vars

\* C10 witness: a healthy value checked after the category's cooldown has elapsed
C10_Witness ==
    /\ last_op = [op |-> "check_kes_expiry", arg |-> <<Some(5)>>]
    /\ IsSome(last_kes_warning)
    /\ now - Unwrap(last_kes_warning) >= 3600

(***************************************************************************)
(* Claims about MetricHistory, checked under SpecHistory.                  *)
(***************************************************************************)
\* the last n elements of s (all of s when it has fewer)
LastN(s, n) == IF Len(s) <= n THEN s ELSE SubSeq(s, Len(s) - n + 1, Len(s))

RingHoldsLastPushed ==
    /\ len = capacity
    /\ values = LastN(pushed, capacity)
    /\ current = Some(Last(pushed))

C4_LenAtMostCapacity ==
    len <= capacity

(***************************************************************************)
(* Claims about the snapshot store, checked under SpecStorage.             *)
(***************************************************************************)
\* the step is a save_snapshot call with a connected record
ConnectedSaveStep ==
    last_op'.op = "save_snapshot" /\ last_op'.arg[1]

\* a save returned Ok(true) on this manager less than the sampling interval ago
SavedWithinInterval ==
    true_saves # <<>> /\ now - Last(true_saves) < 3600

\* C2: a save_snapshot call with a connected record made less than 3600 s after the
\* call that last returned true returns false and leaves the files and
\* last_save_timestamp unchanged; a call made with no earlier save (or 3600 s or more
\* after it) is not refused, and when it returns true after a write that reached the
\* file exactly one snapshot was persisted.
C2_SecondSaveWithinIntervalIsNoOp ==
    [][ConnectedSaveStep =>
          IF SavedWithinInterval
          THEN /\ last_op'.ret = "Ok(false)"
               /\ UNCHANGED <<files, dirs, last_save_timestamp>>
          ELSE /\ last_op'.ret # "Ok(false)"
               /\ last_op'.ret = "Ok(true)" =>
                     /\ last_op'.io = "ok" => TotalSnapshots' = TotalSnapshots + 1
                     /\ last_save_timestamp' = Some(now)]_vars

\* C2 witness: one save returned true, and a second call less than 3600 s later
\* returned false with one snapshot persisted
C2_Witness ==
    /\ last_op = [op |-> "save_snapshot", arg |-> <<TRUE>>, ret |-> "Ok(false)", io |-> "none"]
    /\ Len(true_saves) = 1
    /\ now > true_saves[1]
    /\ now - true_saves[1] < 3600
    /\ files # <<>>
    /\ TotalSnapshots = 1

\* the date a daily file's path states: year directory, month directory, and the
\* day that the file name starts with (DD.json.gz, as date_file names it)
StatedDate(q) ==
    IF IsSome(parse_u32(q[1])) /\ IsSome(parse_u32(q[2])) /\ IsSome(parse_u32(q[3][1]))
    THEN Some(date_to_timestamp(Unwrap(parse_u32(q[1])), Unwrap(parse_u32(q[2])),
                                Unwrap(parse_u32(q[3][1]))))
    ELSE None

\* the daily files older than now - retention_days
StatedOldFiles ==
    {q \in DOMAIN files :
        IsSome(StatedDate(q)) /\ Unwrap(StatedDate(q)) < now - retention_days * 86400}

\* C5: cleanup_old_data deletes exactly the daily files whose date, read from the
\* path, is older than now - retention_days, deletes no other file, and returns the
\* number of files it deleted.
C5_CleanupRemovesExactlyOldDailyFiles ==
    [][last_op'.op = "cleanup_old_data" =>
          /\ DOMAIN files' = DOMAIN files \ StatedOldFiles
          /\ last_op'.ret = Cardinality(StatedOldFiles)]_vars

(***************************************************************************)
(* Claims about the parser, checked under SpecParse.                       *)
(***************************************************************************)
\* node_metrics is the record parsed from payload
Parsed ==
    \/ last_op.op = "parse_prometheus_metrics" /\ last_op.ret = "Ok"
    \/ last_op.op = "check_peer_count"

\* the line contributes a (name, value) pair
Counted(line) == ~SkipTable[line] /\ LineTable[line] # None
NameOf(line) == Unwrap(LineTable[line])[1]
ValueOf(line) == Unwrap(LineTable[line])[2]
CountedLines == SelectSeq(payload, Counted)

Reverse(s) == [i \in 1..Len(s) |-> s[Len(s) + 1 - i]]

Fields == {match_arms[i].field : i \in 1..Len(match_arms)}

RECURSIVE AliasesFrom(_, _)
AliasesFrom(field, i) ==
    IF i > Len(match_arms) THEN <<>>
    ELSE (IF match_arms[i].field = field THEN match_arms[i].names ELSE <<>>)
         \o AliasesFrom(field, i + 1)

\* the aliases of a field in priority order: the names that assign it, in the order
\* the parser lists them
AliasesOf(field) == AliasesFrom(field, 1)

\* the positions in AliasesOf(field) of the aliases that the payload holds
PresentAliases(field) ==
    {i \in 1..Len(AliasesOf(field)) :
        \E j \in 1..Len(CountedLines) : NameOf(CountedLines[j]) = AliasesOf(field)[i]}

\* the payload's line of the alias, when the payload holds it once
LineOfAlias(name) ==
    CHOOSE line \in Range(CountedLines) : NameOf(line) = name

\* C6: when a payload holds two different aliases of one field (each on one line),
\* the parsed field has the value of the higher-priority alias, and parsing the
\* payload with its lines in the opposite order gives the same field.
C6_HigherPriorityAliasWins ==
    Parsed =>
        \A field \in Fields :
            LET names == AliasesOf(field)
                present == PresentAliases(field)
                once == \A i \in present :
                           Cardinality({j \in 1..Len(CountedLines) :
                                           NameOf(CountedLines[j]) = names[i]}) = 1
            IN  (Cardinality(present) >= 2 /\ once) =>
                    LET top == LineOfAlias(names[SetMin(present)])
                    IN  /\ get_field(node_metrics, field)
                             = get_field(parse_prometheus_metrics(<<top>>, now), field)
                        /\ get_field(parse_prometheus_metrics(Reverse(payload), now), field)
                             = get_field(node_metrics, field)

\* the arms of counters and gauges: those that store the value as a u64
CounterConvs == {"u64", "u64_if_none", "u64_guarded", "ns_to_ms"}

\* negative or non-finite
InvalidValue(value) == ~is_finite(value) \/ value.n < 0

PeerStateFields == {<<"p2p", "cold_peers">>, <<"p2p", "warm_peers">>, <<"p2p", "hot_peers">>}

\* every line of the payload that can give the field a value has an invalid value
OnlyInvalidLines(field) ==
    \A j \in 1..Len(CountedLines) :
        LET name == NameOf(CountedLines[j])
        IN  name \in ArmNames =>
              /\ ArmOf[name].field = field => InvalidValue(ValueOf(CountedLines[j]))
              /\ field = <<"peers_connected">> => ArmOf[name].field \notin PeerStateFields

\* C7: a line of a recognized counter or gauge whose value is negative or
\* non-finite leaves its typed field None (no other line giving the field a
\* value), and the parse does not fail.
C7_InvalidValuesLeaveFieldAbsent ==
    last_op.op = "parse_prometheus_metrics" =>
        \A j \in 1..Len(CountedLines) :
            LET name == NameOf(CountedLines[j])
            IN  (/\ name \in ArmNames
                 /\ ArmOf[name].conv \in CounterConvs
                 /\ InvalidValue(ValueOf(CountedLines[j]))) =>
                    /\ last_op.ret = "Ok"
                    /\ OnlyInvalidLines(ArmOf[name].field) =>
                          get_field(node_metrics, ArmOf[name].field) = None

\* the payload's only metric is connectedPeers_int 0
OnlyZeroPeers ==
    /\ Len(CountedLines) = 1
    /\ NameOf(CountedLines[1]) = "cardano_node_metrics_connectedPeers_int"
    /\ ValueOf(CountedLines[1]) = F64(0)

\* the payload holds no peer metric: neither connectedPeers nor a peer state count
NoPeerMetric ==
    \A j \in 1..Len(CountedLines) :
        LET name == NameOf(CountedLines[j])
        IN  name \in ArmNames =>
               ArmOf[name].field \notin (PeerStateFields \cup {<<"peers_connected">>})

\* C8: a payload whose only metric is connectedPeers_int 0 parses to
\* peers_connected == Some(0) with kes_remaining == None, and check_peer_count on it
\* emits a Critical alert; a payload without a peer metric parses to
\* peers_connected == None, check_peer_count on it emits nothing, and peer_health
\* is not Critical.
C8_ZeroAndUnknownPeersAreDistinct ==
    [][/\ (Parsed' /\ OnlyZeroPeers') =>
             /\ node_metrics'.peers_connected = Some(0)
             /\ node_metrics'.kes_remaining = None
       /\ (/\ Parsed /\ OnlyZeroPeers
           /\ last_op'.op = "check_peer_count"
           /\ FiredTimes("check_peer_count") = {}) =>
             /\ last_op'.arg = <<Some(0)>>
             /\ EmitsOne("check_peer_count")
             /\ Last(recent_alerts').severity = "Critical"
       /\ (Parsed' /\ NoPeerMetric') =>
             /\ node_metrics'.peers_connected = None
             /\ peer_health(node_metrics') # "Critical"
       /\ (Parsed /\ NoPeerMetric /\ last_op'.op = "check_peer_count") =>
             /\ last_op'.arg = <<None>>
             /\ UNCHANGED alert_vars]_vars

\* connectedPeers_int 0 was parsed to Some(0) and the check on it has emitted a
\* Critical alert
C8_Witness ==
    /\ OnlyZeroPeers
    /\ last_op.op = "check_peer_count"
    /\ node_metrics.peers_connected = Some(0)
    /\ node_metrics.kes_remaining = None
    /\ Len(recent_alerts) = 1
    /\ recent_alerts[1].severity = "Critical"
    /\ recent_alerts[1].title = "Low Peer Count"

(***************************************************************************)
(* Further claims about the alert manager, checked under SpecAlerts.       *)
(***************************************************************************)
\* the severity the claims state for a value of a category
StatedSeverity(op, value) ==
    CASE op = "check_kes_expiry" -> "Critical"
      [] op = "check_peer_count" -> IF value = 0 THEN "Critical" ELSE "Warning"
      [] op = "check_sync_progress" -> IF value < 9000 THEN "Critical" ELSE "Warning"
      [] op = "check_block_stall" -> "Warning"

\* the step is a check that emitted an alert
EmittingStep(op) ==
    last_op'.op = op /\ Len(recent_alerts') = Len(recent_alerts) + 1

\* C11: the severity of an emitted alert is a function of the checked value alone:
\* peers 0 Critical and 1 Warning, sync below 90 Critical and in [90, 95) Warning,
\* KES below 5 Critical, a block stall Warning.
C11_SeverityFromValue ==
    [][\A op \in CheckOps :
          EmittingStep(op) =>
              /\ StatedUnhealthy(op, last_op'.arg[1])
              /\ Last(recent_alerts').severity
                    = StatedSeverity(op, Unwrap(last_op'.arg[1]))]_vars

\* a sync check at exactly 90 percent has emitted a Warning after a Critical alert
\* of another value
C11_Witness ==
    /\ last_op = [op |-> "check_sync_progress", arg |-> <<Some(9000)>>]
    /\ Len(recent_alerts) = 2
    /\ recent_alerts[1].severity = "Critical"
    /\ recent_alerts[2].severity = "Warning"
    /\ recent_alerts[2].title = "Sync Progress Degraded"
    /\ recent_alerts[2].timestamp = now

(***************************************************************************)
(* Claims about the alert ring and the alert log, checked under SpecRing:  *)
(* the runs of an alert manager whose ring is one alert short of full.     *)
(***************************************************************************)
\* every alert emitted so far, oldest first
AllEmitted == PastAlerts \o emitted

\* C12: the ring holds at most max_recent (50) alerts, and exactly the most recently
\* emitted ones in emission order; an alert added to a full ring evicts the oldest
\* alert and no other.
C12_RingKeepsMostRecent ==
    [][/\ Len(recent_alerts') <= 50
       /\ recent_alerts' = LastN(AllEmitted', 50)
       /\ (Len(recent_alerts) = 50 /\ emitted' # emitted) =>
             recent_alerts' = Append(Tail(recent_alerts), Last(emitted'))]_vars

\* an alert was added to the full ring: the oldest alert is gone and the ring is
\* still full
C12_Witness ==
    /\ Len(emitted) = 2
    /\ Len(recent_alerts) = 50
    /\ recent_alerts[1] = PastAlerts[2]
    /\ recent_alerts[49] = emitted[1]
    /\ recent_alerts[50] = emitted[2]

\* the last-alert timestamp of a check's category
LastWarning(op) ==
    CASE op = "check_kes_expiry" -> last_kes_warning
      [] op = "check_peer_count" -> last_peer_warning
      [] op = "check_sync_progress" -> last_sync_warning
      [] op = "check_block_stall" -> last_height_stall_warning

\* the step is a call of op whose value is unhealthy and whose cooldown has elapsed
PassingCheckStep(op) == UnhealthyCheckStep(op) /\ ~InCooldown(op)

\* C13: when the alert log cannot be opened or written, or there is no log path, an
\* alert that passes the gates is still appended to the ring and its category's
\* last-alert timestamp is set to the time of the check; the check returns normally.
C13_LogFailureStillAlerts ==
    [][\A op \in CheckOps :
          (PassingCheckStep(op) /\ log_file \in {"none", "unopenable", "unwritable"}) =>
              /\ Last(recent_alerts').title = TitleOf(op)
              /\ Last(recent_alerts').timestamp = now
              /\ emitted' = Append(emitted, Last(recent_alerts'))
              /\ LastWarning(op)' = Some(now)
              /\ log_lines' = log_lines]_vars

\* two alerts were emitted with a log file that cannot be opened: both are in the
\* ring, the second category's timestamp is set and nothing was logged
C13_Witness ==
    /\ log_file = "unopenable"
    /\ last_op = [op |-> "check_block_stall", arg |-> <<Some(301), Some(7)>>]
    /\ Len(emitted) = 2
    /\ emitted[1].title = "KES Expiry Critical"
    /\ recent_alerts[50] = emitted[2]
    /\ recent_alerts[50].title = "Block Height Stalled"
    /\ last_height_stall_warning = Some(now)
    /\ log_lines = <<>>

(* Further claims about the alert manager, checked under SpecAlerts. *)
\* the category of op never fired, or fired at least its cooldown ago, by its own
\* last-alert timestamp
OwnCooldownElapsed(op) ==
    LastWarning(op) = None \/ now - Unwrap(LastWarning(op)) >= StatedCooldown(op)

\* C14: the alert categories are independent: a check of one category leaves the
\* last-alert timestamps of the other categories as they were, and whether it emits
\* depends only on its value and its own last-alert timestamp, so an alert or a
\* running cooldown of another category neither suppresses nor delays it.
C14_CategoriesIndependent ==
    [][\A op \in CheckOps :
          last_op'.op = op =>
              /\ \A other \in CheckOps \ {op} : LastWarning(other)' = LastWarning(other)
              /\ IF StatedUnhealthy(op, last_op'.arg[1]) /\ OwnCooldownElapsed(op)
                 THEN /\ emitted' = Append(emitted, Last(recent_alerts'))
                      /\ Last(emitted').title = TitleOf(op)
                      /\ Last(emitted').timestamp = now
                 ELSE emitted' = emitted]_vars

\* a sync alert was emitted while the cooldown of the peer category was running, and
\* the peer timestamp is still the time of the peer alert
C14_Witness ==
    /\ Len(emitted) = 2
    /\ emitted[1].title = "Low Peer Count"
    /\ emitted[2].title = "Sync Progress Degraded"
    /\ emitted[2].timestamp - emitted[1].timestamp < 300
    /\ last_op.op = "check_sync_progress"
    /\ last_peer_warning = Some(emitted[1].timestamp)
    /\ last_sync_warning = Some(now)
    /\ last_kes_warning = None

(***************************************************************************)
(* Re-fire on persistence, checked under SpecRefire: one category has      *)
(* fired, its value stays unhealthy, the clock keeps advancing and the     *)
(* category's check keeps being called.                                    *)
(***************************************************************************)
\* the cooldown of each check
CooldownOf(op) ==
    CASE op = "check_kes_expiry" -> KES_COOLDOWN
      [] op = "check_peer_count" -> PEER_COOLDOWN
      [] op = "check_sync_progress" -> SYNC_COOLDOWN
      [] op = "check_block_stall" -> STALL_COOLDOWN

\* the first call of each check with an unhealthy value, and the alert it emits
FirstCall(op) ==
    CASE op = "check_kes_expiry" -> <<Some(4)>>
      [] op = "check_peer_count" -> <<Some(1)>>
      [] op = "check_sync_progress" -> <<Some(9000)>>
      [] op = "check_block_stall" -> <<Some(301), Some(7)>>

FirstAlert(op) ==
    CASE op = "check_kes_expiry" -> kes_alert(0, 4)
      [] op = "check_peer_count" -> peer_alert(0, 1)
      [] op = "check_sync_progress" -> sync_alert(0, 9000)
      [] op = "check_block_stall" -> stall_alert(0, 301, Some(7))

\* the categories whose value is unhealthy: the one that has fired
Watched == {op \in CheckOps : LastWarning(op) # None}

\* the clock runs around the multiples of the category's cooldown, up to a horizon
\* that leaves room for MaxAlerts further alerts and no more
RefireHorizon(op) == CooldownOf(op) * (MaxAlerts + 1) - 1
RefireClock(op) ==
    {t \in {k * CooldownOf(op) + d : k \in 0..(MaxAlerts + 1), d \in {-1, 0, 1}} :
        t >= 0 /\ t <= RefireHorizon(op)}

RefireTick ==
    /\ \E op \in Watched : \E t \in RefireClock(op) : t > now /\ now' = t
    /\ last_op' = [op |-> "tick", arg |-> <<>>]
    /\ UNCHANGED <<alert_vars, history_vars, storage_vars, parse_vars, app_vars>>

\* the check of the watched category, called with unhealthy values only
RefireKes ==
    /\ "check_kes_expiry" \in Watched
    /\ \E v \in {x \in KesInputs : kes_unhealthy(x)} : check_kes_expiry(v)
RefirePeers ==
    /\ "check_peer_count" \in Watched
    /\ \E v \in {x \in PeerInputs : peer_unhealthy(x)} : check_peer_count(v)
RefireSync ==
    /\ "check_sync_progress" \in Watched
    /\ \E v \in {x \in SyncInputs : sync_unhealthy(x)} : check_sync_progress(v)
RefireStall ==
    /\ "check_block_stall" \in Watched
    /\ \E h \in HeightInputs : \E a \in {x \in AgeInputs : stall_unhealthy(x)} :
          check_block_stall(h, a)

\* an alert manager without a log path, just after the first alert of one category
InitRefire ==
    /\ now = 0
    /\ \E op \in CheckOps :
          /\ last_op = [op |-> op, arg |-> FirstCall(op)]
          /\ recent_alerts = <<FirstAlert(op)>>
          /\ last_kes_warning = (IF op = "check_kes_expiry" THEN Some(0) ELSE None)
          /\ last_peer_warning = (IF op = "check_peer_count" THEN Some(0) ELSE None)
          /\ last_sync_warning = (IF op = "check_sync_progress" THEN Some(0) ELSE None)
          /\ last_height_stall_warning = (IF op = "check_block_stall" THEN Some(0) ELSE None)
    /\ log_file = "none"
    /\ log_lines = <<>>
    /\ emitted = <<>>
    /\ HistoryIdle
    /\ StorageIdle
    /\ ParseIdle
    /\ AppIdle

NextRefire == RefireTick \/ RefireKes \/ RefirePeers \/ RefireSync \/ RefireStall

\* the clock keeps advancing and the check keeps being called
SpecRefire ==
    /\ InitRefire
    /\ [][NextRefire]_vars
    /\ WF_vars(RefireTick)
    /\ WF_vars(RefireKes)
    /\ WF_vars(RefirePeers)
    /\ WF_vars(RefireSync)
    /\ WF_vars(RefireStall)

RefireTimes == UNION {RefireClock(op) : op \in CheckOps}

\* the category of op fired at time t and the clock can still pass the cooldown
FiredAt(op, t) ==
    LastWarning(op) = Some(t) /\ t + StatedCooldown(op) <= RefireHorizon(op)

\* the category of op fired again, at least one cooldown after t
FiredAgainAfter(op, t) ==
    /\ LastWarning(op) # None
    /\ Unwrap(LastWarning(op)) >= t + StatedCooldown(op)
    /\ Last(recent_alerts).title = TitleOf(op)
    /\ Last(recent_alerts).timestamp = Unwrap(LastWarning(op))

\* C15: if a category's value stays unhealthy, the clock keeps advancing and the
\* category's check keeps being called, then after every alert of the category
\* another one follows once the cooldown has expired, without the value becoming
\* healthy in between.
C15_RefireOnPersistence ==
    \A op \in CheckOps : \A t \in RefireTimes : FiredAt(op, t) ~> FiredAgainAfter(op, t)

\* the KES category fired at 0, again one cooldown later and again one cooldown
\* after that, with the value unhealthy all the time
C15_Witness ==
    /\ Len(emitted) = 2
    /\ recent_alerts[1] = FirstAlert("check_kes_expiry")
    /\ emitted[1].title = "KES Expiry Critical"
    /\ emitted[1].timestamp = 3600
    /\ emitted[2].title = "KES Expiry Critical"
    /\ emitted[2].timestamp = 7200
    /\ last_kes_warning = Some(7200)

(* Further claims about the snapshot store, checked under SpecStorage. *)
\* the step is a save_snapshot call
SaveStep == last_op'.op = "save_snapshot"

\* C16: save_snapshot called with a record whose connected flag is false returns
\* Ok(false) and changes nothing: no directory or file is created or modified and
\* last_save_timestamp is unchanged, whatever the time since the last save.
C16_DisconnectedSaveChangesNothing ==
    [][(SaveStep /\ ~last_op'.arg[1]) =>
          /\ last_op'.ret = "Ok(false)"
          /\ UNCHANGED <<files, dirs, last_save_timestamp>>]_vars

\* a disconnected record was refused a full sampling interval after the last save
C16_Witness ==
    /\ last_op = [op |-> "save_snapshot", arg |-> <<FALSE>>, ret |-> "Ok(false)", io |-> "none"]
    /\ Len(true_saves) = 1
    /\ now - true_saves[1] >= 3600
    /\ last_save_timestamp = Some(true_saves[1])
    /\ TotalSnapshots = 1

\* the file system failed during the call
IoFailed == last_op'.io \in {"mkdir_fail", "create_fail", "write_fail", "flush_fail"}

\* C17: last_save_timestamp changes only on a save_snapshot call that returns
\* Ok(true); when directory creation or the file write fails the call returns an
\* error and last_save_timestamp keeps its previous value, so that the next call is
\* not rate-limited by the failed attempt.
C17_TimestampOnlyAfterSuccessfulWrite ==
    [][/\ last_save_timestamp' # last_save_timestamp =>
             SaveStep /\ last_op'.ret = "Ok(true)"
       /\ (SaveStep /\ IoFailed) =>
             /\ last_op'.ret = "Err"
             /\ last_save_timestamp' = last_save_timestamp]_vars

\* the daily file of the current date
CurrentDayFile == date_file(DateOfClock[now][1], DateOfClock[now][2], DateOfClock[now][3])

\* the step is a save_snapshot call that returned Ok(true) after a write that
\* reached the file
SuccessfulSaveStep ==
    SaveStep /\ last_op'.ret = "Ok(true)" /\ last_op'.io = "ok"

\* the file at path holds a readable list of snapshots
Readable(path) == path \in DOMAIN files /\ files[path].ok

\* every file but the one at path is as it was
OtherFilesUntouched(path) ==
    \A q \in (DOMAIN files \cup DOMAIN files') \ {path} :
        q \in DOMAIN files /\ q \in DOMAIN files' /\ files'[q] = files[q]

\* C18: a successful save_snapshot only appends: when the current day's file already
\* holds a readable list of snapshots S, the file afterwards holds S followed by
\* exactly one new snapshot, with every element of S unchanged and in the same
\* order, and no other day's file is touched.
C18_SuccessfulSaveOnlyAppends ==
    [][SuccessfulSaveStep =>
          LET path == CurrentDayFile'
          IN  /\ OtherFilesUntouched(path)
              /\ Readable(path) =>
                    /\ path \in DOMAIN files' /\ files'[path].ok
                    /\ Len(files'[path].snapshots) = Len(files[path].snapshots) + 1
                    /\ SubSeq(files'[path].snapshots, 1, Len(files[path].snapshots))
                          = files[path].snapshots
                    /\ Last(files'[path].snapshots).timestamp >= now]_vars

\* the second save of the day: the day's file holds the first snapshot followed by
\* the new one, and the file of the day before is as the previous run left it
C18_Witness ==
    /\ last_op = [op |-> "save_snapshot", arg |-> <<TRUE>>, ret |-> "Ok(true)", io |-> "ok"]
    /\ Readable(CurrentDayFile)
    /\ Len(files[CurrentDayFile].snapshots) = 2
    /\ files[CurrentDayFile].snapshots[1].timestamp = FirstDay
    /\ files[CurrentDayFile].snapshots[2].timestamp = FirstDay + 3600
    /\ <<"2024", "02", <<"27", "json", "gz">>>> \in DOMAIN files
    /\ files[<<"2024", "02", <<"27", "json", "gz">>>>] = DailyFile(<<OldSnapshot(2024, 2, 27)>>)

\* the file at path exists and cannot be read as a daily file
Corrupt(path) == path \in DOMAIN files /\ ~files[path].ok

\* C19: when the current day's file exists but is corrupt or unreadable, save_snapshot
\* with a connected record and the interval elapsed does not fail because of it: unless
\* the file system fails during the call it returns Ok(true), and the file afterwards
\* is a valid daily file containing exactly one snapshot, the new one.
C19_CorruptFileStartsFresh ==
    [][(ConnectedSaveStep /\ ~SavedWithinInterval /\ Corrupt(CurrentDayFile')) =>
          LET path == CurrentDayFile'
          IN  /\ last_op'.ret = "Err" => IoFailed
              /\ last_op'.io = "ok" =>
                    /\ last_op'.ret = "Ok(true)"
                    /\ path \in DOMAIN files' /\ files'[path].ok
                    /\ files'[path].node_name = StorageNodeName
                    /\ Len(files'[path].snapshots) = 1
                    /\ files'[path].snapshots[1].timestamp >= now
                    /\ files'[path].snapshots[1].timestamp <= now']_vars

\* a write was lost and left the day's file corrupt; the save one interval later on
\* the same day returned Ok(true) and the file holds the new snapshot alone
C19_Witness ==
    /\ last_op = [op |-> "save_snapshot", arg |-> <<TRUE>>, ret |-> "Ok(true)", io |-> "ok"]
    /\ true_saves = <<FirstDay, FirstDay + 3600>>
    /\ now = FirstDay + 3600
    /\ Readable(CurrentDayFile)
    /\ Len(files[CurrentDayFile].snapshots) = 1
    /\ files[CurrentDayFile].snapshots[1].timestamp = FirstDay + 3600

(***************************************************************************)
(* Claims about loading the history, checked under SpecLoad.               *)
(***************************************************************************)
\* the daily files of the retention window: those of today and of the
\* retention_days - 1 days before it
WindowFiles ==
    {date_file(timestamp_to_date(now - k * 86400)[1], timestamp_to_date(now - k * 86400)[2],
               timestamp_to_date(now - k * 86400)[3]) :
        k \in {j \in 0..(retention_days - 1) : now >= j * 86400}}

\* the snapshots of the readable daily files of the window
WindowSnapshots ==
    UNION {Range(files[q].snapshots) : q \in {w \in WindowFiles : Readable(w)}}

Min(a, b) == IF a <= b THEN a ELSE b

\* C20: load_history(max_samples) returns the snapshots of all readable daily files
\* in the retention window sorted by timestamp ascending; when more than max_samples
\* exist it returns exactly the max_samples snapshots with the largest timestamps;
\* the length of the result is min(max_samples, number of snapshots in the window).
C20_LoadReturnsMostRecentSorted ==
    [][last_op'.op = "load_history" =>
          LET result == last_op'.ret
              max_samples == last_op'.arg[1]
          IN  /\ \A i \in 1..(Len(result) - 1) : result[i].timestamp <= result[i + 1].timestamp
              /\ Range(result) \subseteq WindowSnapshots
              /\ \A s \in WindowSnapshots \ Range(result) : \A r \in Range(result) :
                    s.timestamp <= r.timestamp
              /\ Len(result) = Min(max_samples, Cardinality(WindowSnapshots))]_vars

\* the step is a load_history call
LoadStep == last_op'.op = "load_history"

\* the daily files of the retention window that exist but cannot be read
UnreadableWindowFiles == {w \in WindowFiles : Corrupt(w)}

\* C21: a missing or corrupt daily file never fails load_history: the call returns
\* its list, takes no snapshot from that file, and still returns every snapshot of
\* every other readable daily file in the retention window (all of them when
\* max_samples does not cut the list).
C21_UnreadableFilesAreSkipped ==
    [][LoadStep =>
          LET result == last_op'.ret
          IN  /\ \A w \in UnreadableWindowFiles :
                    Range(files[w].snapshots) \cap Range(result) = {}
              /\ Range(result) \subseteq WindowSnapshots
              /\ Len(result) < last_op'.arg[1] => WindowSnapshots \subseteq Range(result)]_vars

\* 2024-02-26 is damaged and 2024-02-27 is missing; the load returned the two
\* snapshots of 2024-02-28 after the one of 2024-02-01
C21_Witness ==
    /\ last_op.op = "load_history"
    /\ last_op.arg = <<MaxSamples>>
    /\ now = FirstDay
    /\ retention_days = DEFAULT_RETENTION_DAYS
    /\ Corrupt(date_file(2024, 2, 26))
    /\ date_file(2024, 2, 27) \notin DOMAIN files
    /\ Len(last_op.ret) = 3
    /\ last_op.ret[1] = OldSnapshot(2024, 2, 1)
    /\ last_op.ret[3].timestamp = FirstDay + 3600

(***************************************************************************)
(* C22: the order of the snapshots in a daily file.                        *)
(***************************************************************************)
\* the timestamps of a list of snapshots increase strictly
IncreasingTimestamps(snapshots) ==
    \A i \in 1..(Len(snapshots) - 1) : snapshots[i].timestamp < snapshots[i + 1].timestamp

\* C22: for one node whose save_snapshot calls are made one after the other, the
\* snapshots are appended in increasing timestamp order: in every daily file each
\* snapshot's timestamp is greater than that of the snapshot before it.
C22_AppendedInIncreasingOrder ==
    \A q \in DOMAIN files : files[q].ok => IncreasingTimestamps(files[q].snapshots)

\* two saves of the same day, one sampling interval apart, are in the day's file
C22_Witness ==
    /\ Len(true_saves) = 2
    /\ Readable(date_file(2024, 2, 28))
    /\ Len(files[date_file(2024, 2, 28)].snapshots) = 2
    /\ files[date_file(2024, 2, 28)].snapshots[1].timestamp = FirstDay
    /\ files[date_file(2024, 2, 28)].snapshots[2].timestamp = FirstDay + MIN_SAMPLE_INTERVAL_SECS

(***************************************************************************)
(* C23: the daily files of a node whose process restarts.                  *)
(***************************************************************************)
\* a restart of the process: NodeState::new makes a StorageManager with
\* StorageManager::new for the same node, over the files the node has written
NewStorageManager ==
    /\ retention_days' = DEFAULT_RETENTION_DAYS
    /\ last_save_timestamp' = None
    /\ last_op' = [op |-> "new", arg |-> <<>>]
    /\ UNCHANGED <<now, dirs, files, true_saves, alert_vars, history_vars, parse_vars, app_vars>>

NextRestart == StorageTick \/ SaveSnapshot \/ CleanupOldData \/ NewStorageManager

SpecRestart == InitStorage /\ [][NextRestart]_vars

\* any two snapshots of the list are at least the sampling interval apart
HourlySamples(snapshots) ==
    \A i \in 1..Len(snapshots) : \A j \in (i + 1)..Len(snapshots) :
        snapshots[j].timestamp - snapshots[i].timestamp >= MIN_SAMPLE_INTERVAL_SECS

\* C23: after any sequence of save_snapshot calls, including calls of newly created
\* StorageManager instances of the same node, a daily file holds at most 48
\* snapshots and no two snapshots closer together than the sampling interval.
C23_DailyFileHoldsHourlySamples ==
    \A q \in DOMAIN files :
        files[q].ok =>
            /\ Len(files[q].snapshots) <= 48
            /\ HourlySamples(files[q].snapshots)

(***************************************************************************)
(* C24: the storage partition and the alert log of another node.           *)
(***************************************************************************)
\* char::is_alphanumeric and char::to_lowercase on the ASCII letters and digits
UpperCase == "ABCDEFGHIJKLMNOPQRSTUVWXYZ"
LowerCase == "abcdefghijklmnopqrstuvwxyz"
is_alphanumeric(c) ==
    is_digit(c) \/ \E i \in 1..Len(UpperCase) : c \in {Char(UpperCase, i), Char(LowerCase, i)}
char_to_lowercase(c) ==
    IF \E i \in 1..Len(UpperCase) : Char(UpperCase, i) = c
    THEN Char(LowerCase, CHOOSE i \in 1..Len(UpperCase) : Char(UpperCase, i) = c)
    ELSE c

\* str::to_lowercase, from the i-th character on
RECURSIVE lowercase_from(_, _)
lowercase_from(s, i) ==
    IF i > Len(s) THEN "" ELSE char_to_lowercase(Char(s, i)) \o lowercase_from(s, i + 1)
to_lowercase(s) == lowercase_from(s, 1)

\* sanitize_node_name: every character that is not alphanumeric, '-' or '_' becomes
\* '_', and the result is lower-cased
sanitize_char(c) == IF is_alphanumeric(c) \/ c = "-" \/ c = "_" THEN c ELSE "_"
RECURSIVE sanitize_from(_, _)
sanitize_from(name, i) ==
    IF i > Len(name) THEN "" ELSE sanitize_char(Char(name, i)) \o sanitize_from(name, i + 1)
sanitize_node_name(name) == to_lowercase(sanitize_from(name, 1))

\* the directory of a node's daily files below the data directory:
\* base_dir.join("history").join(&self.node_name), node_name set by StorageManager::new
storage_partition(name) == <<"history", sanitize_node_name(name)>>

\* str::replace(" ", "_"), from the i-th character on
RECURSIVE replace_from(_, _)
replace_from(s, i) ==
    IF i > Len(s) THEN ""
    ELSE (IF Char(s, i) = " " THEN "_" ELSE Char(s, i)) \o replace_from(s, i + 1)

\* get_alerts_log_path, below the data directory
get_alerts_log_path(name) == <<"alerts", to_lowercase(replace_from(name, 1)) \o ".log">>

\* names a second node of the configuration can have, all different from NodeName
OtherNodeNames == {"test_node", "Test/Node", "test node", "Relay 1"}

\* one node's pipeline: its storage manager and its alert manager with a log file
InitNodes ==
    /\ now = FirstDay
    /\ last_op = [op |-> "new", arg |-> <<>>]
    /\ log_file = "writable"
    /\ AlertManager_new
    /\ HistoryIdle
    /\ ParseIdle
    /\ AppIdle
    /\ StorageManager_new(DEFAULT_RETENTION_DAYS)
    /\ files = LeftoverFiles
    /\ dirs = UNION {{<<q[1]>>, <<q[1], q[2]>>} : q \in DOMAIN LeftoverFiles}

NextNodes == StorageTick \/ SaveSnapshot \/ CleanupOldData \/ CheckPeers

SpecNodes == InitNodes /\ [][NextNodes]_vars

\* storage_partition and get_alerts_log_path of the configured names, evaluated once
PartitionOf == [name \in OtherNodeNames \cup {NodeName} |-> storage_partition(name)]
LogPathOf == [name \in OtherNodeNames \cup {NodeName} |-> get_alerts_log_path(name)]

\* the files below the data directory that this node's storage manager has, by full
\* path, and those of them that lie in the storage partition of the node called name
StoredPaths == {PartitionOf[NodeName] \o q : q \in DOMAIN files}
PartitionFiles(name) ==
    [p \in {f \in StoredPaths : SubSeq(f, 1, 2) = PartitionOf[name]} |->
        files[SubSeq(p, 3, Len(p))]]

\* the lines of the alert log of the node called name, as far as this node's alert
\* manager can reach them
AlertLog(name) ==
    IF LogPathOf[name] = LogPathOf[NodeName] THEN log_lines ELSE <<>>

\* C24: for two configured nodes with different names the pipelines share no
\* mutable state: no save_snapshot, cleanup_old_data or alert of this node creates,
\* modifies or deletes a file of the other node's storage partition or alert log.
C24_NodesShareNoFiles ==
    [][\A other \in OtherNodeNames :
          /\ other # NodeName
          /\ PartitionFiles(other)' = PartitionFiles(other)
          /\ AlertLog(other)' = AlertLog(other)]_vars

(***************************************************************************)
(* app.rs: one node's poll.                                                *)
(***************************************************************************)
\* mutant of metrics_after_error: the record is reset
metrics_after_error_reset(metrics) == NodeMetrics_default

\* the record after a failed fetch: self.metrics.connected = false
metrics_after_error(metrics) == [metrics EXCEPT !.connected = FALSE]

\* NodeState::fetch_metrics.  result is what metrics_client.fetch() returned:
\* Ok(metrics), or Err(error) for a failed or timed-out request.  t2, t3 and io are
\* the clock reads and the file system outcome of the save_snapshot call.
fetch_metrics(result, t2, t3, io) ==
    IF result.ok
    THEN LET metrics == result.metrics
             height_changed ==
                 /\ IsSome(metrics.block_height)
                 /\ (IsSome(last_block_height)
                        => Unwrap(last_block_height) # Unwrap(metrics.block_height))
         IN  /\ last_block_height' =
                    IF height_changed THEN metrics.block_height ELSE last_block_height
             /\ last_block_time' = IF height_changed THEN Some(now) ELSE last_block_time
             /\ node_metrics' = metrics
             /\ history' = MetricsHistory_update(history, metrics)
             /\ updates' = Append(updates, metrics)
             /\ last_error' = None
             /\ fetch_count' = fetch_count + 1
             /\ save_snapshot_body(metrics, t2, t3, io)
             /\ last_op' = [op |-> "fetch_metrics", arg |-> <<"Ok">>,
                            calls |-> <<"history.update", "storage.save_snapshot">>,
                            ret |-> save_snapshot_result(metrics, io)[1],
                            io |-> save_snapshot_result(metrics, io)[2]]
             /\ UNCHANGED <<payload, retention_days, alert_vars, history_vars>>
    ELSE /\ node_metrics' = metrics_after_error(node_metrics)
         /\ last_error' = Some(result.error)
         /\ t2 = now /\ t3 = now /\ io = "ok"
         /\ last_op' = [op |-> "fetch_metrics", arg |-> <<"Err">>, calls |-> <<>>,
                        ret |-> "none", io |-> "none"]
         /\ UNCHANGED <<now, payload, history, updates, fetch_count, last_block_height,
                        last_block_time, alert_vars, history_vars, storage_vars>>

\* the records of the polls: the test record, the same at the next block, and a
\* record of a node that reports no chain position and no connected peer
NextBlockMetrics == [TestMetrics EXCEPT !.block_height = Some(10500001)]
SparseMetrics ==
    [NodeMetrics_default EXCEPT
        !.connected = TRUE, !.peers_connected = Some(0), !.memory_used = Some(8000),
        !.p2p = [P2PStats_default EXCEPT !.hot_peers = Some(1)]]
PollResults ==
    {[ok |-> TRUE, metrics |-> m, error |-> ""] :
        m \in {TestMetrics, NextBlockMetrics, SparseMetrics}}
    \cup {[ok |-> FALSE, metrics |-> NodeMetrics_default, error |-> "error sending request"]}

\* one poll of the node (the loop of fetch_all_metrics on a single node)
FetchMetrics ==
    \E result \in PollResults, t2 \in StorageClock, t3 \in StorageClock,
       io \in {"ok", "write_fail"} :
        /\ fetch_count < MaxPolls
        /\ now <= t2 /\ t2 <= t3 /\ t3 <= now + MaxCallLag
        /\ fetch_metrics(result, t2, t3, io)

\* NodeState::new on an empty data directory, with the configured history length
InitApp ==
    /\ now = FirstDay
    /\ last_op = [op |-> "new", arg |-> <<>>]
    /\ log_file = "writable"
    /\ AlertManager_new
    /\ HistoryIdle
    /\ StorageIdle
    /\ ParseIdle
    /\ \E history_length \in 0..MaxCapacity : history = MetricsHistory_new(history_length)
    /\ last_error = None
    /\ fetch_count = 0
    /\ last_block_height = None
    /\ last_block_time = None
    /\ updates = <<>>

\* the clock of a run of the node: it passes the sampling interval and ends at the
\* next midnight
PollTick == StorageTick /\ now' <= FirstDay + 86400

NextApp == PollTick \/ FetchMetrics

SpecApp == InitApp /\ [][NextApp]_vars

(***************************************************************************)
(* C25: a poll whose fetch fails.                                          *)
(***************************************************************************)
\* the step is a fetch_metrics call that took its error branch
FailedPollStep == last_op'.op = "fetch_metrics" /\ last_op'.arg = <<"Err">>

\* C25: a poll whose fetch fails reaches no downstream consumer: the history rings,
\* the snapshot files, last_save_timestamp, fetch_count and the tip tracking are
\* unchanged, and so is the alert manager; only connected (set to false) and
\* last_error change.
C25_FailedPollReachesNoConsumer ==
    [][FailedPollStep =>
          /\ UNCHANGED <<history, updates, files, dirs, last_save_timestamp, true_saves,
                         retention_days, fetch_count, last_block_height, last_block_time,
                         alert_vars>>
          /\ node_metrics'.connected = FALSE
          /\ [node_metrics' EXCEPT !.connected = node_metrics.connected] = node_metrics
          /\ IsSome(last_error')]_vars

\* a failed poll after a successful one that saved a snapshot: the record, the ring
\* and the counters of the successful poll are still there
C25_Witness ==
    /\ last_op.op = "fetch_metrics" /\ last_op.arg = <<"Err">>
    /\ fetch_count = 1
    /\ node_metrics = [TestMetrics EXCEPT !.connected = FALSE]
    /\ history["block_height"] = [capacity |-> 2, values |-> <<10500000>>]
    /\ last_block_height = Some(10500000)
    /\ last_save_timestamp = Some(FirstDay)
    /\ Len(files[date_file(2024, 2, 28)].snapshots) = 1
    /\ last_error = Some("error sending request")

(***************************************************************************)
(* C26: the consumers of a successful poll.                                *)
(***************************************************************************)
\* the step is a fetch_metrics call that took its Ok branch
SuccessfulPollStep == last_op'.op = "fetch_metrics" /\ last_op'.arg = <<"Ok">>

\* C26: on every successful poll the record of the tick is fed to the three
\* consumers in order: the history update, then the snapshot save, then the alert
\* checks; none is skipped.  The alert checks having run shows in the alert manager:
\* a record with fewer than two peers, with no peer alert before it, leaves an alert.
C26_RecordFeedsAllConsumers ==
    [][SuccessfulPollStep =>
          /\ updates' = Append(updates, node_metrics')
          /\ history' = MetricsHistory_update(history, node_metrics')
          /\ last_op'.ret \in {"Ok(true)", "Ok(false)", "Err"}
          /\ last_op'.calls = <<"history.update", "storage.save_snapshot", "alerts.check">>
          /\ (/\ peer_unhealthy(node_metrics'.peers_connected)
              /\ last_peer_warning = None)
                => /\ Len(emitted') = Len(emitted) + 1
                   /\ IsSome(last_peer_warning')]_vars

(***************************************************************************)
(* C27: MetricsHistory::update.                                            *)
(***************************************************************************)
\* the step calls MetricsHistory::update
UpdateStep == updates' # updates

\* the number of updates so far whose record held the field of ring f
PresentCount(f) ==
    Cardinality({i \in 1..Len(updates) : IsSome(tracked_value(updates[i], f))})

\* C27: MetricsHistory::update pushes exactly one value, the record's, onto the
\* ring of each tracked field that is present and leaves the ring of an absent
\* field as it is; so each ring's length is min(capacity, number of updates in
\* which its field was present).
C27_UpdatePushesPresentFields ==
    [][UpdateStep =>
          \A f \in HistoryFields :
              LET v == tracked_value(Last(updates'), f)
                  old == history[f].values
              IN  /\ IsSome(v) =>
                        /\ history'[f].values \in
                              {Append(old, Unwrap(v))} \cup
                              (IF old = <<>> THEN {} ELSE {Append(Tail(old), Unwrap(v))})
                        /\ history'[f].capacity = history[f].capacity
                  /\ v = None => history'[f] = history[f]
                  /\ Len(history'[f].values) = Min(history'[f].capacity, PresentCount(f)')]_vars

(***************************************************************************)
(* C28: the peer total fallback.                                           *)
(***************************************************************************)
\* C28: the peer total fallback applies only when no direct connected-peers metric
\* was parsed: a direct value (0 included) is kept whatever the cold, warm and hot
\* counts are; without one, peers_connected is cold + warm + hot when that sum is
\* positive, and stays absent when it is 0 or no state count is present.
C28_FallbackOnlyWithoutDirectMetric ==
    [][Parsed' =>
          LET looped == parsed_lines(payload')
              direct == looped.peers_connected
              s == peer_states(looped)
              positive == \E i \in 1..3 : s[i] > 0
              peers == node_metrics'.peers_connected
          IN  /\ IsSome(direct) => peers = direct
              /\ (direct = None /\ positive) =>
                    IsSome(peers) /\ Unwrap(peers) - s[1] - s[2] = s[3]
              /\ (direct = None /\ ~positive) => peers = None]_vars

(***************************************************************************)
(* C29: the uptime derivation.                                             *)
(***************************************************************************)
\* C29: whenever a start time was parsed, uptime_seconds is now - start_time if
\* start_time <= now, and is absent from the resulting record if start_time > now;
\* uptime is never negative.
C29_UptimeFromStartTime ==
    [][Parsed' =>
          LET start == parsed_lines(payload').node_start_time
              uptime == node_metrics'.uptime_seconds
          IN  /\ (IsSome(start) /\ Unwrap(start) <= now') =>
                    uptime = Some(F64(now' - Unwrap(start)))
              /\ (IsSome(start) /\ Unwrap(start) > now') => uptime = None
              /\ IsSome(uptime) => ~(Unwrap(uptime).k # "nan" /\ Unwrap(uptime).n < 0)]_vars

(***************************************************************************)
(* C30: the name and the value of a metric line.                           *)
(***************************************************************************)
\* the name and the value the spec gives for a trimmed line: the text before the
\* first '{' or space, whichever comes first, and the token after the last space
StatedName(l) ==
    SubSeq(l, 1, SetMin({i \in 1..Len(l) : Char(l, i) \in {"{", " "}}) - 1)
StatedValue(l) ==
    parse_f64(SubSeq(l, SetMax({i \in 1..Len(l) : Char(l, i) = " "}) + 1, Len(l)))

\* C30: for every metric line (a line with a numeric token after its last space),
\* parse_metric_line takes as name the text before the first '{' or the first
\* space, whichever occurs first, and as value the token after the last space.
C30_NameBeforeFirstBraceOrSpace ==
    [][last_op'.op = "receive_line" =>
          LET line == Last(payload')
              l == trim(line)
          IN  (IsSome(find(l, " ")) /\ IsSome(StatedValue(l))) =>
                 parse_metric_line(line) = Some(<<StatedName(l), Unwrap(StatedValue(l))>>)]_vars

(***************************************************************************)
(* C31: the parse never fails and drops nothing.                           *)
(***************************************************************************)
\* the line's name selects an arm of the match
Recognized(line) == Counted(line) /\ NameOf(line) \in ArmNames

\* the typed fields of a record: everything but the raw map and the node type
\* detected from it
TypedFields(metrics) == [metrics EXCEPT !.raw = <<>>, !.node_type = "CardanoNode"]

\* C31: for every input text parse_prometheus_metrics returns a record, with
\* connected == true; comment lines, blank lines and lines without a numeric value
\* contribute nothing; every other line, recognized or not, has its (name, value)
\* in the raw map; and a line with an unrecognized name changes no typed field.
C31_ParseNeverFailsNorDrops ==
    [][last_op'.op = "parse_prometheus_metrics" =>
          /\ last_op'.ret = "Ok"
          /\ node_metrics'.connected = TRUE
          /\ DOMAIN node_metrics'.raw = {NameOf(CountedLines[i]) : i \in DOMAIN CountedLines}
          /\ \A i \in DOMAIN payload :
                Counted(payload[i]) =>
                    /\ NameOf(payload[i]) \in DOMAIN node_metrics'.raw
                    /\ node_metrics'.raw[NameOf(payload[i])] = ValueOf(payload[i])
          /\ TypedFields(node_metrics') =
                TypedFields(parse_prometheus_metrics(SelectSeq(payload, Recognized), now))]_vars

(***************************************************************************)
(* C32: export_to_csv, checked under SpecExport.                           *)
(***************************************************************************)
\* the daily files of the export runs: those of the history loads, with a snapshot
\* of 2024-02-27 that holds only a zero peer count and the memory, and a snapshot
\* of 2024-02-28 whose sync progress is 0
ExportFiles ==
    (date_file(2024, 2, 27) :> DailyFile(<<from_metrics(SparseMetrics, FirstDay - 86400)>>))
    @@ (date_file(2024, 2, 28) :>
            DailyFile(<<from_metrics([TestMetrics EXCEPT !.sync_progress = Some(0)], FirstDay),
                        from_metrics(TestMetrics, FirstDay + 3600)>>))
    @@ StoredFiles

ExportToCsv ==
    \E io \in {"ok", "create_fail", "write_fail"}, written \in 0..2 :
        export_to_csv(now, io, written)

InitExport ==
    /\ now \in LoadClock
    /\ last_op = [op |-> "new", arg |-> <<>>]
    /\ AlertsIdle
    /\ HistoryIdle
    /\ ParseIdle
    /\ AppIdle
    /\ \E days \in {1, 2, DEFAULT_RETENTION_DAYS} : StorageManager_new(days)
    /\ \E present \in SUBSET (DOMAIN ExportFiles) :
          /\ files = [q \in present |-> ExportFiles[q]]
          /\ dirs = UNION {{<<q[1]>>, <<q[1], q[2]>>} : q \in present}

NextExport == ExportToCsv

SpecExport == InitExport /\ [][NextExport]_vars

\* the step is an export_to_csv call that returned Ok(count)
ExportedStep == last_op'.op = "export_to_csv" /\ last_op'.ret = "Ok"

\* the snapshots stored for the node: those of its readable daily files
StoredSnapshots ==
    UNION {Range(files[q].snapshots) : q \in {w \in DOMAIN files : Readable(w)}}

\* the optional fields of a snapshot in column order (columns 3..13)
OptionalColumns ==
    <<"block_height", "slot_num", "epoch", "slot_in_epoch", "peers_connected",
      "memory_used", "mempool_txs", "mempool_bytes", "sync_progress", "kes_period",
      "kes_remaining">>

\* C32: export_to_csv writes exactly one header row plus one data row per stored
\* snapshot of the node, in ascending timestamp order, and returns that row count,
\* which is the length of load_history with an unbounded limit; in every row an
\* absent field is an empty cell and a field present with value 0 is the cell "0".
C32_ExportWritesOneRowPerSnapshot ==
    [][ExportedStep =>
          LET rows == Unwrap(last_op'.csv)
              count == last_op'.count
              loaded == load_history(U64_MAX, now)
          IN  /\ rows[1] = csv_header
              /\ Len(rows) = 1 + count
              /\ count = Len(loaded)
              /\ count = Cardinality(StoredSnapshots)
              /\ \A s \in StoredSnapshots :
                    \E i \in 2..Len(rows) : rows[i][1] = ToString(s.timestamp)
              /\ \A i \in 1..count : rows[i + 1][1] = ToString(loaded[i].timestamp)
              /\ \A i \in 1..(count - 1) : loaded[i].timestamp <= loaded[i + 1].timestamp
              /\ \A i \in 1..count : \A c \in DOMAIN OptionalColumns :
                    LET v == loaded[i][OptionalColumns[c]]
                        cell == rows[i + 1][c + 2]
                    IN  /\ v = None => cell = ""
                        /\ v = Some(0) => cell = "0"
                        /\ cell = "" => v = None]_vars

(***************************************************************************)
(* C33: MetricHistory::trend, checked under SpecHistory.                   *)
(***************************************************************************)
\* C33: trend() returns None whenever fewer than 2 values are stored, and
\* otherwise newest - oldest over the values now in the buffer: the newest is the
\* last value pushed and, after eviction, the oldest is the oldest value still
\* stored (the len()-th last pushed), not the first value ever pushed.
C33_TrendIsNewestMinusOldest ==
    [][last_op'.op = "trend" =>
          LET result == last_op'.ret
              oldest == pushed[Len(pushed) - len + 1]
          IN  /\ len < 2 <=> result = None
              /\ len >= 2 =>
                    /\ result = Some(Last(pushed) - oldest)
                    /\ oldest = Head(values)
                    /\ Len(pushed) > capacity => len = capacity]_vars

\* trend() on a buffer of capacity 2 after three pushes, the first of them evicted
\* and different from the second
C33_Witness ==
    /\ last_op.op = "trend"
    /\ capacity = 2
    /\ Len(pushed) = 3
    /\ pushed[1] # pushed[2]
    /\ last_op.ret = Some(pushed[3] - pushed[2])
    /\ last_op.ret # Some(pushed[3] - pushed[1])

(***************************************************************************)
(* C34: the date conversions, checked under SpecDates.                     *)
(***************************************************************************)
\* the calendar of the spec: the leap-year rule and the lengths of the months
StatedLeapYear(y) == (y % 4 = 0 /\ y % 100 # 0) \/ y % 400 = 0
StatedDaysInMonth(y, m) ==
    IF m = 2 THEN (IF StatedLeapYear(y) THEN 29 ELSE 28)
    ELSE IF m \in {4, 6, 9, 11} THEN 30 ELSE 31
ValidDates(years) ==
    {date \in years \X (1..12) \X (1..31) : date[3] <= StatedDaysInMonth(date[1], date[2])}

\* the years whose timestamps the model's integers hold: the epoch, leap years,
\* the century leap year 2000 and its neighbours; and the years around 2100, a
\* century year that is no leap year, converted at the granularity of days
NearYears == {1970, 1971, 1972, 1999, 2000, 2001, 2023, 2024, 2037}
FarYears == 2099..LastYear

\* each run converts one input.  Timestamps at the start, the second second, the middle and the last second of
\* the days 1970-01-01..1972-03-10, 1999-12-25..2001-01-08 and 2023-12-09..2024-03-18
TimestampInputs ==
    {day * 86400 + sec :
        day \in (0..800) \cup (10950..11330) \cup (19700..19800),
        sec \in {0, 1, 43200, 86399}}

TimestampToDate ==
    \E ts \in TimestampInputs :
        /\ last_op.op = "new"
        /\ last_op' = [op |-> "timestamp_to_date", arg |-> <<ts>>,
                       ret |-> timestamp_to_date(ts)]
        /\ UNCHANGED <<now, alert_vars, history_vars, storage_vars, parse_vars, app_vars>>

DateToTimestamp ==
    \E date \in ValidDates(NearYears) :
        /\ last_op.op = "new"
        /\ last_op' = [op |-> "date_to_timestamp", arg |-> date,
                       ret |-> date_to_timestamp(date[1], date[2], date[3])]
        /\ UNCHANGED <<now, alert_vars, history_vars, storage_vars, parse_vars, app_vars>>

\* the two conversions on the far years, without the factor 86400
DateToDays ==
    \E date \in ValidDates(FarYears) :
        /\ last_op.op = "new"
        /\ last_op' = [op |-> "date_to_days", arg |-> date,
                       ret |-> date_to_days(date[1], date[2], date[3])]
        /\ UNCHANGED <<now, alert_vars, history_vars, storage_vars, parse_vars, app_vars>>

DaysToDate ==
    \E days \in date_to_days(2099, 1, 1)..date_to_days(LastYear, 12, 31) :
        /\ last_op.op = "new"
        /\ last_op' = [op |-> "days_to_date", arg |-> <<days>>, ret |-> days_to_date(days)]
        /\ UNCHANGED <<now, alert_vars, history_vars, storage_vars, parse_vars, app_vars>>

InitDates ==
    /\ now = 0
    /\ last_op = [op |-> "new", arg |-> <<>>]
    /\ AlertsIdle
    /\ HistoryIdle
    /\ StorageIdle
    /\ ParseIdle
    /\ AppIdle

NextDates == TimestampToDate \/ DateToTimestamp \/ DateToDays \/ DaysToDate

SpecDates == InitDates /\ [][NextDates]_vars

WriteFailedStep == SaveStep /\ last_op'.io \in {"write_fail", "flush_fail"}

\* C35: a save_snapshot call that fails part-way through writing the daily file,
\* after the file was opened for overwrite, leaves the snapshots persisted earlier
\* for that day intact and readable: every daily file that was readable before the
\* call is readable after it and still holds the snapshots it held.
C35_FailedSaveKeepsStoredSnapshots ==
    [][WriteFailedStep =>
          \A q \in DOMAIN files :
              Readable(q) =>
                  /\ q \in DOMAIN files'
                  /\ files'[q].ok
                  /\ files'[q].snapshots = files[q].snapshots]_vars

(***************************************************************************)
(* C36: the daily file a snapshot is appended to, checked under SpecStorage.*)
(***************************************************************************)
\* the daily files a step wrote
WrittenFiles == {q \in DOMAIN files' : q \notin DOMAIN files \/ files'[q] # files[q]}

\* C36: every snapshot that save_snapshot appends to the daily file of a date
\* (y, m, d) has a timestamp t with timestamp_to_date(t) = (y, m, d), also when the
\* clock advances, across midnight too, between the clock reads of the call.
C36_SnapshotInFileOfItsDate ==
    [][SuccessfulSaveStep =>
          \A q \in WrittenFiles :
              LET appended == Last(files'[q].snapshots)
                  date == timestamp_to_date(appended.timestamp)
              IN  q = date_file(date[1], date[2], date[3])]_vars

(***************************************************************************)
(* C37: the windows of cleanup and loading, checked under SpecStorage.     *)
(***************************************************************************)
\* the dates load_history would visit now, as the timestamps of their midnights
VisitedDates ==
    {Unwrap(StatedDate(history_paths(now, retention_days)[k])) : k \in 1..retention_days}

\* C37: the retention windows of cleanup and loading agree: for every daily file
\* dated today or earlier, cleanup_old_data at now deletes the file if and only if
\* load_history at now would not visit the file's date.
C37_CleanupAndLoadWindowsAgree ==
    [][last_op'.op = "cleanup_old_data" =>
          \A q \in DOMAIN files :
              (IsSome(StatedDate(q)) /\ Unwrap(StatedDate(q)) <= now) =>
                  (q \notin DOMAIN files' <=> Unwrap(StatedDate(q)) \notin VisitedDates)]_vars

(***************************************************************************)
(* C38: a healthy reading between two unhealthy ones, checked under        *)
(* SpecRecover: once a category has fired, its value is unhealthy again    *)
(* only after a check that found it healthy.                               *)
(***************************************************************************)
\* the wall clock advances; the tick remembers the last check
RecoverTick ==
    /\ \E t \in AlertClock : t > now /\ now' = t
    /\ last_op' = [op |-> "tick", arg |-> <<>>, prev |-> PreviousCheck]
    /\ UNCHANGED <<alert_vars, history_vars, storage_vars, parse_vars, app_vars>>

\* the last check was one of op and found the value healthy
RecoveredBefore(op) ==
    PreviousCheck.op = op /\ ~StatedUnhealthy(op, PreviousCheck.arg[1])

RecoverKes ==
    \E v \in KesInputs :
        /\ (kes_unhealthy(v) /\ IsSome(last_kes_warning)) => RecoveredBefore("check_kes_expiry")
        /\ check_kes_expiry(v)
RecoverPeers ==
    \E v \in PeerInputs :
        /\ (peer_unhealthy(v) /\ IsSome(last_peer_warning)) => RecoveredBefore("check_peer_count")
        /\ check_peer_count(v)
RecoverSync ==
    \E v \in SyncInputs :
        /\ (sync_unhealthy(v) /\ IsSome(last_sync_warning))
              => RecoveredBefore("check_sync_progress")
        /\ check_sync_progress(v)
RecoverStall ==
    \E h \in HeightInputs, a \in AgeInputs :
        /\ (stall_unhealthy(a) /\ IsSome(last_height_stall_warning))
              => RecoveredBefore("check_block_stall")
        /\ check_block_stall(h, a)

NextRecover == RecoverTick \/ RecoverKes \/ RecoverPeers \/ RecoverSync \/ RecoverStall

SpecRecover == InitAlerts /\ [][NextRecover]_vars

\* C38: a healthy reading does not reset a category's cooldown: after an alert at
\* time T, when the value was found healthy and is unhealthy again, a check before
\* T + C emits nothing and changes nothing, and the first unhealthy check at or
\* after T + C emits one alert; the healthy check itself leaves the category's
\* last-alert timestamp as it was.
C38_HealthyReadingKeepsCooldown ==
    [][\A op \in CheckOps :
          /\ (last_op'.op = op /\ ~StatedUnhealthy(op, last_op'.arg[1])) =>
                LastWarning(op)' = LastWarning(op)
          /\ (UnhealthyCheckStep(op) /\ FiredTimes(op) # {}) =>
                /\ RecoveredBefore(op)
                /\ LastWarning(op) = Some(SetMax(FiredTimes(op)))
                /\ IF now - SetMax(FiredTimes(op)) < StatedCooldown(op)
                   THEN UNCHANGED alert_vars
                   ELSE EmitsOne(op)]_vars

\* the peer category fired at 0, the count was found healthy, and the unhealthy
\* count checked at 300 fired again
C38_Witness ==
    /\ last_op = [op |-> "check_peer_count", arg |-> <<Some(1)>>]
    /\ now = 300
    /\ Len(recent_alerts) = 2
    /\ recent_alerts[1].title = "Low Peer Count" /\ recent_alerts[1].timestamp = 0
    /\ recent_alerts[2].title = "Low Peer Count" /\ recent_alerts[2].timestamp = 300
    /\ last_peer_warning = Some(300)

(***************************************************************************)
(* C39: a clock that moves backward, checked under SpecBackward.  Where    *)
(* now - last goes below zero the build decides: a panic with overflow     *)
(* checks, the wrapped difference without.                                 *)
(***************************************************************************)
\* the clock values of the runs: the start, and the second before and the second
\* at which the sampling interval (and every peer cooldown) has elapsed
BackwardClock == {FirstDay, FirstDay + MIN_SAMPLE_INTERVAL_SECS - 1,
                  FirstDay + MIN_SAMPLE_INTERVAL_SECS}

\* the wall clock is set, forward or backward
ClockStep ==
    /\ last_op.op # "panic"
    /\ \E t \in BackwardClock : t # now /\ now' = t
    /\ last_op' = [op |-> "tick", arg |-> <<>>]
    /\ UNCHANGED <<alert_vars, history_vars, storage_vars, parse_vars, app_vars>>

\* the subtraction of op panics: the call does not return
Panic(op) ==
    /\ last_op' = [op |-> "panic", arg |-> <<op>>]
    /\ UNCHANGED <<now, alert_vars, history_vars, storage_vars, parse_vars, app_vars>>

BackwardSave ==
    \E metrics \in RecordInputs, overflow_checks \in BOOLEAN :
        /\ last_op.op # "panic"
        /\ IF elapsed_underflows(now, last_save_timestamp) /\ overflow_checks
           THEN Panic("save_snapshot")
           ELSE save_snapshot(metrics, now, now, "ok")
BackwardKes ==
    \E v \in KesInputs, overflow_checks \in BOOLEAN :
        /\ last_op.op # "panic"
        /\ IF kes_unhealthy(v) /\ elapsed_underflows(now, last_kes_warning) /\ overflow_checks
           THEN Panic("check_kes_expiry")
           ELSE check_kes_expiry(v)
BackwardPeers ==
    \E v \in PeerInputs, overflow_checks \in BOOLEAN :
        /\ last_op.op # "panic"
        /\ IF peer_unhealthy(v) /\ elapsed_underflows(now, last_peer_warning) /\ overflow_checks
           THEN Panic("check_peer_count")
           ELSE check_peer_count(v)
BackwardSync ==
    \E v \in SyncInputs, overflow_checks \in BOOLEAN :
        /\ last_op.op # "panic"
        /\ IF sync_unhealthy(v) /\ elapsed_underflows(now, last_sync_warning) /\ overflow_checks
           THEN Panic("check_sync_progress")
           ELSE check_sync_progress(v)
BackwardStall ==
    \E h \in HeightInputs, a \in AgeInputs, overflow_checks \in BOOLEAN :
        /\ last_op.op # "panic"
        /\ IF /\ stall_unhealthy(a)
              /\ elapsed_underflows(now, last_height_stall_warning)
              /\ overflow_checks
           THEN Panic("check_block_stall")
           ELSE check_block_stall(h, a)

InitBackward ==
    /\ now = FirstDay
    /\ last_op = [op |-> "new", arg |-> <<>>]
    /\ log_file = "writable"
    /\ AlertManager_new
    /\ HistoryIdle
    /\ StorageIdle
    /\ ParseIdle
    /\ AppIdle

NextBackward ==
    ClockStep \/ BackwardSave \/ BackwardKes \/ BackwardPeers \/ BackwardSync \/ BackwardStall

SpecBackward == InitBackward /\ [][NextBackward]_vars

\* C39: when the clock has moved backward, so that now is earlier than the stored
\* last-save or last-alert timestamp, now - last does not underflow: save_snapshot
\* and every check_* return normally, treat the interval as not elapsed, and
\* persist or emit nothing.
C39_BackwardClockKeepsInterval ==
    [][/\ last_op'.op # "panic"
       /\ \A op \in CheckOps :
             (UnhealthyCheckStep(op) /\ elapsed_underflows(now, LastWarning(op))) =>
                 UNCHANGED alert_vars
       /\ (SaveStep /\ elapsed_underflows(now, last_save_timestamp)) =>
             /\ last_op'.ret = "Ok(false)"
             /\ UNCHANGED <<files, dirs, last_save_timestamp>>]_vars

====
